---- MODULE Spec2Model ----
(***************************************************************************)
(* MovieDoppelganger: the capture-to-reveal pipeline as a state machine.   *)
(*                                                                         *)
(* One JavaScript event loop runs the application.  Every action below is  *)
(* one task of that loop: a user-event handler, or the continuation of an  *)
(* async function after one of its awaits settles (permission prompt,      *)
(* timer, image decode, detection).  A task runs to its next await, so an  *)
(* action covers the code from one await to the next, microtask            *)
(* continuations included.                                                 *)
(*                                                                         *)
(* Screens are DOM elements carrying the class 'active'; `active` is the   *)
(* set of screens that carry it.  A control can be used when the screen it *)
(* is on is active (and, for the take-photo button, when it is not         *)
(* disabled; for the restart button, when it carries 'active' itself).     *)
(* alert() is modal: while a notice is open no other task runs.            *)
(*                                                                         *)
(* Not kept in this state: the pixels of the canvases, the audio elements  *)
(* (a play() that is rejected or throws is caught where it is called and   *)
(* changes nothing here) and the confetti library's own interval timer.    *)
(***************************************************************************)
EXTENDS Integers, Sequences, FiniteSets, Bags

(***************************************************************************)
(* Bounds of the model.                                                    *)
(***************************************************************************)
\* handlers (handleTakePhoto / handleFileUpload invocations) suspended at once
MaxProcs == 2
\* handleWebcamClick invocations waiting for getUserMedia at once
MaxPending == 1
\* positions.length of the detector's landmark list, as drawn by the model
NumPoints == 2
\* the duration of a comparison run, in ms.  startMatchingSequence passes
\* 5000 (25 switches); the orchestration is explored with a run of three
\* switches, which keeps two interleaved runs within reach of exhaustive search
MatchingDuration == 600
\* the number of portraits loadAll() asks for.  generatePlaceholderImages
\* lists 19; the loads are explored with a shorter list
NumCharacters == 2
\* Math.random() is explored at the values RandomValues / RandomDenominator
RandomDenominator == 1000
\* detected boxes are explored on a grid of 1 / SubPixel of a pixel
SubPixel == 2
\* calls of Camera.start() waiting for getUserMedia at once, where the
\* controller is explored on its own
MaxStarts == 2
\* streams granted in one exploration of the controller
MaxGranted == 8
\* arrays up to this length are shuffled in every possible way, longer ones
\* in a few of them
MaxShuffled == 3

(***************************************************************************)
(* Program constants.                                                      *)
(***************************************************************************)
MaxResize == 800
CountdownStart == 3
\* the period of the countdown interval, in ms (startCountdown, line 105)
TickInterval == 1000
SwitchInterval == 200
\* the two detection-model components counted by loadAll (line 136)
ModelComponents == 2
\* the duration startMatchingSequence passes to animateMatching (line 547)
ShowDuration == 5000
\* Math.floor(Math.random() * 41) + 20 (animateMatching, line 94)
PercentageSpan == 41
PercentageBase == 20
\* the number of portraits generatePlaceholderImages lists (lines 185-205)
PlaceholderCount == 19
\* the default of cropToFace's padding parameter, in pixels (line 29)
Padding == 50

Loading == "loading-screen"
Upload == "upload-screen"
Capturing == "webcam-screen"
Analyzing == "analysis-screen"
Matching == "matching-screen"
Revealing == "reveal-screen"
Error == "error-screen"
Screens == {Loading, Upload, Capturing, Analyzing, Matching, Revealing, Error}

RevealFlags ==
    {"match-found-flash", "reveal-content", "fade-out", "fade-in",
     "reveal-text", "restart-btn"}

NoFaceMessage ==
    "No face detected in the image. Please try again with a clear photo showing your face."

WebcamNotice == "Unable to access your webcam. Please ensure you have granted camera permissions."
CaptureNotice == "Failed to capture photo. Please try again."
FileNotice == "Failed to load image. Please try again with a different file."
NoNotice == "none"

(***************************************************************************)
(* Inputs.  A file is its declared MIME type and a name; what decoding it  *)
(* yields (failure, or an image of some size) is drawn when the decode     *)
(* completes.                                                              *)
(***************************************************************************)
\* file.type is kept as its sequence of characters
NoFile == [name |-> "", type |-> <<>>]
Files ==
    {[name |-> "notes.txt", type |-> <<"t", "e", "x", "t", "/", "p", "l", "a", "i", "n">>],
     [name |-> "a.png", type |-> <<"i", "m", "a", "g", "e", "/", "p", "n", "g">>],
     [name |-> "b.jpg", type |-> <<"i", "m", "a", "g", "e", "/", "j", "p", "e", "g">>]}
\* decoded image sizes <<width, height>>: one that fits, one that is shrunk,
\* one so thin that the resized canvas has height 0
ImageSizes == {<<640, 480>>, <<1600, 1200>>, <<2000, 1>>}
\* the frame the camera delivers (constraints of Camera.start)
VideoSize == <<1280, 720>>

VARIABLES
    phase,              \* init(): "loading" | "settled" | "ready"
    assets,             \* this.assets: "null" until loadAll() resolved, then "bundle"
    active,             \* screens carrying 'active'
    stream,             \* camera.stream is non-null
    permPending,        \* getUserMedia requests not yet answered
    btnDisabled,        \* take-photo-btn.disabled
    countdownOverlay,   \* countdown-overlay carries 'active'
    fileInput,          \* the file held by file-input
    procs,              \* bag of suspended handlers
    flags,              \* reveal-stage elements carrying their class
    errorMessage,       \* error-message.textContent
    notice,             \* the open alert(), or NoNotice
    totalAssets,        \* preloader.totalAssets
    loadedAssets,       \* preloader.loadedAssets
    progress,           \* what updateProgress last wrote to the progress bar
    loads,              \* the loads started by loadAll(), one per asset
    loadAllPromise,     \* the promise of loadAll(): "idle" before the call
    bundle,             \* the content of preloader.assets
    show,               \* one comparison-and-reveal sequence
    crop                \* the component explored on its own: one call of cropToFace, the
                        \* connection paths, the confetti interval, the streams, startup

\* the state of the components explored on their own (SpecLoad, SpecShow,
\* SpecCrop); the orchestration (Spec) leaves it as constructed
subVars ==
    <<totalAssets, loadedAssets, progress, loads, loadAllPromise, bundle, show, crop>>

appVars ==
    <<phase, assets, active, stream, permPending, btnDisabled,
      countdownOverlay, fileInput, procs, flags,
      errorMessage, notice>>

vars ==
    <<phase, assets, active, stream, permPending, btnDisabled,
      countdownOverlay, fileInput, procs, flags,
      errorMessage, notice,
      totalAssets, loadedAssets, progress, loads, loadAllPromise, bundle, show, crop>>

(***************************************************************************)
(* Pure functions.                                                         *)
(***************************************************************************)
\* Animation.switchScreen: both elements exist in the page
switchScreen(act, currentScreenId, nextScreenId) ==
    (act \ {currentScreenId}) \cup {nextScreenId}

\* a resize that caps each side on its own
resizeImageCapped(image, maxWidth, maxHeight) ==
    <<IF image[1] > maxWidth THEN maxWidth ELSE image[1],
      IF image[2] > maxHeight THEN maxHeight ELSE image[2]>>

\* Camera.resizeImage: the size of the returned canvas.  Assigning a
\* fractional number to canvas.width / canvas.height truncates it.
resizeImage(image, maxWidth, maxHeight) ==
    LET width == image[1]
        height == image[2]
    IN  IF width > height
        THEN IF width > maxWidth
             THEN <<maxWidth, (height * maxWidth) \div width>>
             ELSE <<width, height>>
        ELSE IF height > maxHeight
             THEN <<(width * maxHeight) \div height, maxHeight>>
             ELSE <<width, height>>

\* CanvasRenderingContext2D.drawImage throws InvalidStateError for a source
\* canvas with a zero dimension (processImage line 483)
DrawThrows(canvasSize) == canvasSize[1] = 0 \/ canvasSize[2] = 0

\* a type check that accepts every declared type
IsImageTypeAnyType(file) ==
    Len(file.type) >= 1

\* Camera.loadImageFromFile, line 147
IsImageType(file) ==
    /\ Len(file.type) >= 6
    /\ SubSeq(file.type, 1, 6) = <<"i", "m", "a", "g", "e", "/">>

\* Animation.animateMatching, line 79
switchCount(duration) == duration \div SwitchInterval

(***************************************************************************)
(* Suspended handlers.  A record is one invocation of handleTakePhoto      *)
(* (kind "photo") or handleFileUpload (kind "file") waiting at an await;   *)
(* pc names the await.  result, points, connected, settled, switches and   *)
(* entered record what the invocation has done so far; shown is what the   *)
(* countdown has written to countdown-number, elapsed the ms since         *)
(* startCountdown was called.                                              *)
(***************************************************************************)
NewProc(kind, pc) ==
    [kind |-> kind, pc |-> pc, count |-> CountdownStart,
     shown |-> <<>>, elapsed |-> 0,
     frame |-> FALSE, result |-> "pending", points |-> 0,
     connected |-> FALSE, settled |-> FALSE, switches |-> 0,
     entered |-> <<>>, waited |-> 0]

Running == BagToSet(procs)
Spawn(r) == procs (+) SetToBag({r})
Remove(r) == procs (-) SetToBag({r})
Replace(r, r2) == (procs (-) SetToBag({r})) (+) SetToBag({r2})
HasSlot == BagCardinality(procs) < MaxProcs
Idle == notice = NoNotice

\* pcs inside MovieDoppelgangerApp.processImage
RunPcs ==
    {"wait500", "detecting", "points", "settle", "matching", "flash",
     "pause", "hold", "fadeOut", "fadeIn", "final"}

(***************************************************************************)
(* The assets of Preloader.loadAll: the portraits, the result image, the   *)
(* three sounds and the detection models.  A load is the promise returned  *)
(* by loadImage / loadSound / loadFaceApiModels, the value it resolved     *)
(* with, and (for a sound) whether the canplaythrough/loadeddata listeners *)
(* and the error listener are still attached.                              *)
(***************************************************************************)
CharacterAssets == {<<"character", i>> : i \in 1..NumCharacters}
SlothAsset == <<"sloth", 0>>
ImageAssets == CharacterAssets \cup {SlothAsset}
SoundNames == <<"timerBeep", "cameraShutter", "trumpet">>
SoundAssets == {<<"sound", i>> : i \in 1..Len(SoundNames)}
ModelsAsset == <<"models", 0>>
Assets == ImageAssets \cup SoundAssets \cup {ModelsAsset}

NotStarted ==
    [promise |-> "none", value |-> "none", canplay |-> FALSE, error |-> FALSE]
Started(a) ==
    [promise |-> "pending", value |-> "none",
     canplay |-> a \in SoundAssets, error |-> a \in SoundAssets]

\* this.assets as the Preloader constructor leaves it
EmptyBundle ==
    [images |-> {}, slothImage |-> FALSE,
     sounds |-> [n \in {SoundNames[i] : i \in 1..Len(SoundNames)} |-> FALSE]]

IdleShow == [pc |-> "idle"]
IdleCrop == [pc |-> "idle"]

\* the components as constructed
InitSub ==
    /\ totalAssets = 0
    /\ loadedAssets = 0
    /\ progress = <<0, 0>>
    /\ loads = [a \in Assets |-> NotStarted]
    /\ loadAllPromise = "idle"
    /\ bundle = EmptyBundle
    /\ show = IdleShow
    /\ crop = IdleCrop

Init ==
    /\ InitSub
    /\ phase = "loading"
    /\ assets = "null"
    /\ active = {Loading}
    /\ stream = FALSE
    /\ permPending = 0
    /\ btnDisabled = FALSE
    /\ countdownOverlay = FALSE
    /\ fileInput = NoFile
    /\ procs = EmptyBag
    /\ flags = {}
    /\ errorMessage = ""
    /\ notice = NoNotice

(***************************************************************************)
(* Startup: init() after loadAll() resolves, then its 500 ms timer.        *)
(***************************************************************************)
LoadAllResolved ==
    /\ phase = "loading"
    /\ assets' = "bundle"
    /\ phase' = "settled"
    /\ UNCHANGED <<subVars, active, stream, permPending, btnDisabled,
                   countdownOverlay, fileInput, procs, flags, errorMessage, notice>>

\* a startup whose timer does not wait for loadAll()
StartupTimerUnawaited ==
    /\ phase \in {"loading", "settled"}
    /\ active' = switchScreen(active, Loading, Upload)
    /\ phase' = "ready"
    /\ UNCHANGED <<subVars, assets, stream, permPending, btnDisabled,
                   countdownOverlay, fileInput, procs, flags, errorMessage, notice>>

StartupTimer ==
    /\ phase = "settled"
    /\ active' = switchScreen(active, Loading, Upload)
    /\ phase' = "ready"
    /\ UNCHANGED <<subVars, assets, stream, permPending, btnDisabled,
                   countdownOverlay, fileInput, procs, flags, errorMessage, notice>>

(***************************************************************************)
(* Webcam: handleWebcamClick and Camera.start / Camera.stop.               *)
(***************************************************************************)
\* handleWebcamClick up to the await of getUserMedia inside Camera.start
handleWebcamClick ==
    /\ phase = "ready" /\ Idle
    /\ Upload \in active
    /\ permPending < MaxPending
    /\ permPending' = permPending + 1
    /\ UNCHANGED <<subVars, phase, assets, active, stream, btnDisabled,
                   countdownOverlay, fileInput, procs, flags, errorMessage, notice>>

\* a handleWebcamClick that ignores what start() returned
AfterStartIgnoringResult(act, success) ==
    switchScreen(act, Upload, Capturing)

\* handleWebcamClick after Camera.start returned `success`
AfterStart(act, success) ==
    IF success THEN switchScreen(act, Upload, Capturing) ELSE act

\* getUserMedia resolves: this.stream is overwritten, start() returns true
GetUserMediaGranted ==
    /\ Idle
    /\ permPending > 0
    /\ permPending' = permPending - 1
    /\ stream' = TRUE
    /\ active' = AfterStart(active, TRUE)
    /\ UNCHANGED <<subVars, phase, assets, btnDisabled, countdownOverlay, fileInput,
                   procs, flags, errorMessage, notice>>

\* getUserMedia rejects: start() alerts and returns false
GetUserMediaDenied ==
    /\ Idle
    /\ permPending > 0
    /\ permPending' = permPending - 1
    /\ notice' = WebcamNotice
    /\ active' = AfterStart(active, FALSE)
    /\ UNCHANGED <<subVars, phase, assets, stream, btnDisabled,
                   countdownOverlay, fileInput, procs, flags, errorMessage>>

handleCancelWebcam ==
    /\ phase = "ready" /\ Idle
    /\ Capturing \in active
    /\ stream' = FALSE
    /\ active' = switchScreen(active, Capturing, Upload)
    /\ UNCHANGED <<subVars, phase, assets, permPending, btnDisabled,
                   countdownOverlay, fileInput, procs, flags, errorMessage, notice>>

(***************************************************************************)
(* How a handler ends.                                                     *)
(***************************************************************************)
\* the catch block of the handler (and, for handleTakePhoto, its finally)
HandlerCatch(r) ==
    /\ procs' = Remove(r)
    /\ notice' = IF r.kind = "photo" THEN CaptureNotice ELSE FileNotice
    /\ btnDisabled' = IF r.kind = "photo" THEN FALSE ELSE btnDisabled

\* normal return (and, for handleTakePhoto, its finally)
HandlerReturn(r) ==
    /\ procs' = Remove(r)
    /\ btnDisabled' = IF r.kind = "photo" THEN FALSE ELSE btnDisabled
    /\ UNCHANGED notice

\* processImage from its first line to its first await (lines 467-486)
BeginProcessImage(r, image) ==
    /\ active' = switchScreen(switchScreen(active, Upload, Analyzing),
                              Capturing, Analyzing)
    /\ IF DrawThrows(resizeImage(image, MaxResize, MaxResize))
       THEN HandlerCatch(r)
       ELSE /\ procs' = Replace(r, [r EXCEPT !.pc = "wait500",
                                             !.entered = Append(@, Analyzing)])
            /\ UNCHANGED <<notice, btnDisabled>>

(***************************************************************************)
(* Capture: handleTakePhoto, Camera.capturePhoto, Camera.startCountdown.   *)
(***************************************************************************)
\* a handleTakePhoto that leaves its button enabled
handleTakePhotoLeavingEnabled ==
    /\ phase = "ready" /\ Idle
    /\ Capturing \in active
    /\ ~btnDisabled
    /\ HasSlot
    /\ countdownOverlay' = TRUE
    /\ procs' = Spawn(NewProc("photo", "countdown"))
    /\ UNCHANGED <<subVars, phase, assets, active, stream, permPending,
                   btnDisabled, fileInput, flags, errorMessage, notice>>

\* handleTakePhoto to the first tick of the countdown interval
handleTakePhoto ==
    /\ phase = "ready" /\ Idle
    /\ Capturing \in active
    /\ ~btnDisabled
    /\ HasSlot
    /\ btnDisabled' = TRUE
    /\ countdownOverlay' = TRUE
    /\ procs' = Spawn(NewProc("photo", "countdown"))
    /\ UNCHANGED <<subVars, phase, assets, active, stream, permPending,
                   fileInput, flags, errorMessage, notice>>

\* startCountdown, line 100: the tick that leaves count below 0 ends it
CountdownOver(count) == count < 0

\* one tick of the countdown interval; the last one resolves startCountdown,
\* and capturePhoto snapshots the video and asks for the blob.  Without a
\* stream the video has no frame and the canvas is 0 x 0; with one, the
\* video may or may not have delivered a frame yet.
CountdownTick(r) ==
    /\ Idle
    /\ r.pc = "countdown"
    /\ IF CountdownOver(r.count - 1)
       THEN /\ countdownOverlay' = FALSE
            /\ \E f \in {b \in BOOLEAN : b => stream} :
                   procs' = Replace(r, [r EXCEPT !.shown = Append(@, r.count),
                                                 !.elapsed = @ + TickInterval,
                                                 !.count = @ - 1,
                                                 !.pc = "toBlob",
                                                 !.frame = f])
       ELSE /\ procs' = Replace(r, [r EXCEPT !.shown = Append(@, r.count),
                                             !.elapsed = @ + TickInterval,
                                             !.count = @ - 1])
            /\ UNCHANGED countdownOverlay
    /\ UNCHANGED <<subVars, phase, assets, active, stream, permPending,
                   btnDisabled, fileInput, flags,
                   errorMessage, notice>>

\* toBlob calls back: handleTakePhoto stops the camera, then
\* URL.createObjectURL throws for the null blob of an empty canvas
ToBlobDone(r) ==
    /\ Idle
    /\ r.pc = "toBlob"
    /\ stream' = FALSE
    /\ IF r.frame
       THEN /\ procs' = Replace(r, [r EXCEPT !.pc = "loadImage"])
            /\ UNCHANGED <<notice, btnDisabled>>
       ELSE HandlerCatch(r)
    /\ UNCHANGED <<subVars, phase, assets, active, permPending,
                   countdownOverlay, fileInput, flags,
                   errorMessage>>

\* this.loadImage(url) settles: onload starts processImage, onerror rejects
LoadImageDone(r) ==
    /\ Idle
    /\ r.pc = "loadImage"
    /\ \E ok \in BOOLEAN :
           IF ok
           THEN BeginProcessImage(r, VideoSize)
           ELSE HandlerCatch(r) /\ UNCHANGED active
    /\ UNCHANGED <<subVars, phase, assets, stream, permPending,
                   countdownOverlay, fileInput, flags,
                   errorMessage>>

(***************************************************************************)
(* File upload: handleFileUpload and Camera.loadImageFromFile.             *)
(***************************************************************************)
\* the change event of file-input: fired when the selection changes
handleFileUpload(file) ==
    /\ phase = "ready" /\ Idle
    /\ Upload \in active
    /\ file # fileInput
    /\ fileInput' = file
    /\ IF file = NoFile
       THEN UNCHANGED <<procs, notice>>
       ELSE IF IsImageType(file)
            THEN /\ HasSlot
                 /\ procs' = Spawn(NewProc("file", "decoding"))
                 /\ UNCHANGED notice
            ELSE /\ notice' = FileNotice
                 /\ UNCHANGED procs
    /\ UNCHANGED <<subVars, phase, assets, active, stream, permPending,
                   btnDisabled, countdownOverlay, flags,
                   errorMessage>>

\* the FileReader and the Image have loaded: img.onload resolves with an
\* image of some size and processImage starts
FileDecoded(r) ==
    /\ Idle
    /\ r.pc = "decoding"
    /\ \E image \in ImageSizes : BeginProcessImage(r, image)
    /\ UNCHANGED <<subVars, phase, assets, stream, permPending, countdownOverlay,
                   fileInput, flags, errorMessage>>

\* reader.onerror or img.onerror: loadImageFromFile rejects
FileDecodeFailed(r) ==
    /\ Idle
    /\ r.pc = "decoding"
    /\ HandlerCatch(r)
    /\ UNCHANGED active
    /\ UNCHANGED <<subVars, phase, assets, stream, permPending,
                   countdownOverlay, fileInput, flags,
                   errorMessage>>

(***************************************************************************)
(* Analysis: processImage, showError, animateLandmarksProgressive.         *)
(***************************************************************************)
\* Animation.wait(500) is over: detection is started
AnalysisWaitDone(r) ==
    /\ Idle
    /\ r.pc = "wait500"
    /\ procs' = Replace(r, [r EXCEPT !.pc = "detecting"])
    /\ UNCHANGED <<subVars, phase, assets, active, stream, permPending,
                   btnDisabled, countdownOverlay, fileInput,
                   flags, errorMessage, notice>>

\* a showError that names the wrong current screen
showErrorFromUpload(act, message) ==
    [text |-> message, act |-> switchScreen(act, Upload, Error)]

\* showError: the message is the argument, the screen goes to Error
showError(act, message) ==
    [text |-> message, act |-> switchScreen(act, Analyzing, Error)]

\* faceDetection.processImage returns null (lines 492-495) ...
DetectionNone(r) ==
    /\ Idle
    /\ r.pc = "detecting"
    /\ LET e == showError(active, NoFaceMessage)
       IN  /\ errorMessage' = e.text
           /\ active' = e.act
    /\ HandlerReturn(r)
    /\ UNCHANGED <<subVars, phase, assets, stream, permPending,
                   countdownOverlay, fileInput, flags>>

\* ... or a result (lines 497-507): the crop is drawn and the first
\* landmark point appears
DetectionFound(r) ==
    /\ Idle
    /\ r.pc = "detecting"
    /\ procs' = Replace(r, [r EXCEPT !.pc = "points", !.result = "found",
                                     !.points = 1])
    /\ UNCHANGED <<subVars, phase, assets, active, stream, permPending,
                   btnDisabled, countdownOverlay, fileInput, flags,
                   errorMessage, notice>>

\* a landmark loop that stops one point early
MorePointsOffByOne(i) == i < NumPoints - 1

\* animateLandmarksProgressive, line 253: the loop goes on while i < length
MorePoints(i) == i < NumPoints

\* animateLandmarksProgressive, line 250: the wait after each point, in ms
DelayBetweenPoints == 30

\* animateLandmarksProgressive, line 281: the wait after the connections
SettleDelay == 1000

\* a 30 ms wait is over: the next point, or the connections and the settle
\* (waited is the sum of the timed waits of the reveal that have elapsed)
LandmarkPointTimer(r) ==
    /\ Idle
    /\ r.pc = "points"
    /\ IF MorePoints(r.points)
       THEN procs' = Replace(r, [r EXCEPT !.points = @ + 1,
                                          !.waited = @ + DelayBetweenPoints])
       ELSE procs' = Replace(r, [r EXCEPT !.connected = TRUE, !.pc = "settle",
                                          !.waited = @ + DelayBetweenPoints])
    /\ UNCHANGED <<subVars, phase, assets, active, stream, permPending,
                   btnDisabled, countdownOverlay, fileInput,
                   flags, errorMessage, notice>>

(***************************************************************************)
(* Matching: startMatchingSequence and Animation.animateMatching.          *)
(***************************************************************************)
\* a reveal that resolves as soon as the connections are drawn
LandmarkSettleDoneUnwaited(r) ==
    /\ Idle
    /\ r.pc = "settle"
    /\ active' = switchScreen(active, Analyzing, Matching)
    /\ procs' = Replace(r, [r EXCEPT !.pc = "matching", !.settled = TRUE,
                                     !.entered = Append(@, Matching)])
    /\ UNCHANGED <<subVars, phase, assets, stream, permPending, btnDisabled,
                   countdownOverlay, fileInput, flags,
                   errorMessage, notice>>

\* the 1000 ms settle is over: startMatchingSequence up to the interval
LandmarkSettleDone(r) ==
    /\ Idle
    /\ r.pc = "settle"
    /\ active' = switchScreen(active, Analyzing, Matching)
    /\ procs' = Replace(r, [r EXCEPT !.pc = "matching", !.settled = TRUE,
                                     !.waited = @ + SettleDelay,
                                     !.entered = Append(@, Matching)])
    /\ UNCHANGED <<subVars, phase, assets, stream, permPending, btnDisabled,
                   countdownOverlay, fileInput, flags,
                   errorMessage, notice>>

\* an interval that stops one tick late
MatchingOverLate(currentSwitch, duration) == currentSwitch > switchCount(duration)

\* animateMatching, line 99
MatchingOver(currentSwitch, duration) == currentSwitch >= switchCount(duration)

\* animateReveal from its first line to its first await (the flash is set)
BeginReveal(r) ==
    /\ procs' = Replace(r, [r EXCEPT !.switches = @ + 1,
                                     !.entered = Append(@, Revealing),
                                     !.pc = "flash"])
    /\ flags' = flags \cup {"match-found-flash"}

\* one tick of the switch interval; the last one resolves animateMatching
\* and startReveal runs
MatchingTick(r) ==
    /\ Idle
    /\ r.pc = "matching"
    /\ IF MatchingOver(r.switches + 1, MatchingDuration)
       THEN /\ active' = switchScreen(active, Matching, Revealing)
            /\ BeginReveal(r)
       ELSE /\ procs' = Replace(r, [r EXCEPT !.switches = @ + 1])
            /\ UNCHANGED <<active, flags>>
    /\ UNCHANGED <<subVars, phase, assets, stream, permPending, btnDisabled,
                   countdownOverlay, fileInput, errorMessage, notice>>

(***************************************************************************)
(* Reveal: startReveal and Animation.animateReveal.                        *)
(***************************************************************************)
RevealFrame ==
    UNCHANGED <<subVars, phase, assets, active, stream, permPending,
                btnDisabled, countdownOverlay, fileInput, errorMessage, notice>>

\* wait(2500) is over
RevealFlashDone(r) ==
    /\ Idle
    /\ r.pc = "flash"
    /\ procs' = Replace(r, [r EXCEPT !.pc = "pause"])
    /\ flags' = flags \ {"match-found-flash"}
    /\ RevealFrame

\* wait(300) is over
RevealPauseDone(r) ==
    /\ Idle
    /\ r.pc = "pause"
    /\ procs' = Replace(r, [r EXCEPT !.pc = "hold"])
    /\ flags' = flags \cup {"reveal-content"}
    /\ RevealFrame

\* wait(1500) is over
RevealHoldDone(r) ==
    /\ Idle
    /\ r.pc = "hold"
    /\ procs' = Replace(r, [r EXCEPT !.pc = "fadeOut"])
    /\ flags' = flags \cup {"fade-out"}
    /\ RevealFrame

\* wait(1000) after the fade-out is over: the sound is attempted (a
\* rejected or throwing play() is caught), the result image fades in
RevealFadeOutDone(r) ==
    /\ Idle
    /\ r.pc = "fadeOut"
    /\ procs' = Replace(r, [r EXCEPT !.pc = "fadeIn"])
    /\ flags' = flags \cup {"fade-in"}
    /\ RevealFrame

\* wait(1000) is over: the caption is shown
RevealFadeInDone(r) ==
    /\ Idle
    /\ r.pc = "fadeIn"
    /\ procs' = Replace(r, [r EXCEPT !.pc = "final"])
    /\ flags' = flags \cup {"reveal-text"}
    /\ RevealFrame

\* the last wait(1000) is over: the restart control, and the handler returns
RevealFinalDone(r) ==
    /\ Idle
    /\ r.pc = "final"
    /\ flags' = flags \cup {"restart-btn"}
    /\ HandlerReturn(r)
    /\ UNCHANGED <<subVars, phase, assets, active, stream, permPending,
                   countdownOverlay, fileInput, errorMessage>>

(***************************************************************************)
(* Retry, restart, and the modal notice.                                   *)
(***************************************************************************)
handleRetry ==
    /\ phase = "ready" /\ Idle
    /\ Error \in active
    /\ active' = switchScreen(active, Error, Upload)
    /\ UNCHANGED <<subVars, phase, assets, stream, permPending, btnDisabled,
                   countdownOverlay, fileInput, procs, flags, errorMessage, notice>>

\* Animation.resetRevealScreen
resetRevealScreen(f) == f \ RevealFlags

handleRestart ==
    /\ phase = "ready" /\ Idle
    /\ Revealing \in active
    /\ "restart-btn" \in flags
    /\ flags' = resetRevealScreen(flags)
    /\ fileInput' = NoFile
    /\ active' = switchScreen(active, Revealing, Upload)
    /\ UNCHANGED <<subVars, phase, assets, stream, permPending, btnDisabled,
                   countdownOverlay, procs, errorMessage,
                   notice>>

\* the user closes the alert
DismissNotice ==
    /\ notice # NoNotice
    /\ notice' = NoNotice
    /\ UNCHANGED <<subVars, phase, assets, active, stream, permPending,
                   btnDisabled, countdownOverlay, fileInput, procs,
                   flags, errorMessage>>

Next ==
    \/ LoadAllResolved
    \/ StartupTimer
    \/ handleWebcamClick
    \/ GetUserMediaGranted
    \/ GetUserMediaDenied
    \/ handleCancelWebcam
    \/ handleTakePhoto
    \/ \E file \in Files \cup {NoFile} : handleFileUpload(file)
    \/ handleRetry
    \/ handleRestart
    \/ DismissNotice
    \/ \E r \in Running : CountdownTick(r)
    \/ \E r \in Running : ToBlobDone(r)
    \/ \E r \in Running : LoadImageDone(r)
    \/ \E r \in Running : FileDecoded(r)
    \/ \E r \in Running : FileDecodeFailed(r)
    \/ \E r \in Running : AnalysisWaitDone(r)
    \/ \E r \in Running : DetectionNone(r)
    \/ \E r \in Running : DetectionFound(r)
    \/ \E r \in Running : LandmarkPointTimer(r)
    \/ \E r \in Running : LandmarkSettleDone(r)
    \/ \E r \in Running : MatchingTick(r)
    \/ \E r \in Running : RevealFlashDone(r)
    \/ \E r \in Running : RevealPauseDone(r)
    \/ \E r \in Running : RevealHoldDone(r)
    \/ \E r \in Running : RevealFadeOutDone(r)
    \/ \E r \in Running : RevealFadeInDone(r)
    \/ \E r \in Running : RevealFinalDone(r)

Spec == Init /\ [][Next]_vars

(***************************************************************************)
(* Preloader.loadAll and the events of its loads (SpecLoad).  Each action  *)
(* is one task: the call itself up to its await, or one event handler.     *)
(***************************************************************************)
\* updateProgress: the ratio written to the progress bar, as <<loaded, total>>
updateProgress(loaded, total) == <<loaded, total>>

\* resolve(v) of a promise: a settled promise stays as it is
Resolve(l, v) ==
    IF l.promise = "pending"
    THEN [l EXCEPT !.promise = "fulfilled", !.value = v]
    ELSE l

\* Promise.all over the loads: rejected as soon as one is, fulfilled when all are
PromiseAll(ls) ==
    IF \E a \in DOMAIN ls : ls[a].promise = "rejected" THEN "rejected"
    ELSE IF \A a \in DOMAIN ls : ls[a].promise = "fulfilled" THEN "fulfilled"
    ELSE "pending"

\* loadAll from its first line to its await (lines 120-149)
loadAll ==
    /\ loadAllPromise = "idle"
    /\ totalAssets' = NumCharacters + Len(SoundNames) + ModelComponents + 1
    /\ loads' = [a \in Assets |-> Started(a)]
    /\ loadAllPromise' = "pending"
    /\ UNCHANGED <<appVars, loadedAssets, progress, bundle, show, crop>>

Counted(n) ==
    /\ loadedAssets' = loadedAssets + n
    /\ progress' = updateProgress(loadedAssets + n, totalAssets)
    /\ UNCHANGED <<appVars, totalAssets, loadAllPromise, bundle, show, crop>>

\* loadImage, img.onload (lines 20-24)
ImageLoaded(a) ==
    /\ a \in ImageAssets
    /\ loads[a].promise = "pending"
    /\ loads' = [loads EXCEPT ![a] = Resolve(@, "handle")]
    /\ Counted(1)

\* an onerror that rejects the load
OnImageErrorRejects(l) == [l EXCEPT !.promise = "rejected"]

\* loadImage, img.onerror (lines 25-30): resolve(null)
OnImageError(l) == Resolve(l, "null")

ImageError(a) ==
    /\ a \in ImageAssets
    /\ loads[a].promise = "pending"
    /\ loads' = [loads EXCEPT ![a] = OnImageError(@)]
    /\ Counted(1)

\* loadSound, handleCanPlay (lines 45-51): a loadeddata or canplaythrough
\* event of an element that has not failed; both listeners are removed
SoundCanPlay(a) ==
    /\ a \in SoundAssets
    /\ loads[a].canplay
    /\ loads[a].error
    /\ loads' = [loads EXCEPT ![a] = [Resolve(@, "handle") EXCEPT !.canplay = FALSE]]
    /\ Counted(1)

\* loadSound, handleError (lines 53-59): the error event of the element,
\* before or after it had data; only the error listener is removed
SoundError(a) ==
    /\ a \in SoundAssets
    /\ loads[a].error
    /\ loads' = [loads EXCEPT ![a] = [Resolve(@, "null") EXCEPT !.error = FALSE]]
    /\ Counted(1)

\* loadFaceApiModels: both weights loaded (lines 77-83) ...
ModelsLoaded ==
    /\ loads[ModelsAsset].promise = "pending"
    /\ loads' = [loads EXCEPT ![ModelsAsset] = Resolve(@, "true")]
    /\ Counted(ModelComponents)

\* ... or the catch (lines 84-89)
ModelsFailed ==
    /\ loads[ModelsAsset].promise = "pending"
    /\ loads' = [loads EXCEPT ![ModelsAsset] = Resolve(@, "false")]
    /\ Counted(ModelComponents)

\* what loadAll stores and returns (lines 157-165)
StoredAssets(ls) ==
    [images |-> {a \in CharacterAssets : ls[a].value = "handle"},
     slothImage |-> ls[SlothAsset].value = "handle",
     sounds |-> [n \in {SoundNames[i] : i \in 1..Len(SoundNames)} |->
                   \E i \in 1..Len(SoundNames) :
                       SoundNames[i] = n /\ ls[<<"sound", i>>].value = "handle"]]

\* the await of loadAll settles (lines 149-165); when it resolves, init()
\* stores the bundle and starts its 500 ms timer (lines 320-331)
LoadAllSettled ==
    /\ loadAllPromise = "pending"
    /\ PromiseAll(loads) # "pending"
    /\ loadAllPromise' = PromiseAll(loads)
    /\ IF PromiseAll(loads) = "fulfilled"
       THEN /\ bundle' = StoredAssets(loads)
            /\ assets' = "bundle"
            /\ phase' = "settled"
       ELSE UNCHANGED <<bundle, assets, phase>>
    /\ UNCHANGED <<active, stream, permPending, btnDisabled, countdownOverlay,
                   fileInput, procs, flags, errorMessage, notice,
                   totalAssets, loadedAssets, progress, loads, show, crop>>

NextLoad ==
    \/ loadAll
    \/ \E a \in Assets : ImageLoaded(a)
    \/ \E a \in Assets : ImageError(a)
    \/ \E a \in Assets : SoundCanPlay(a)
    \/ \E a \in Assets : SoundError(a)
    \/ ModelsLoaded
    \/ ModelsFailed
    \/ LoadAllSettled
    \/ StartupTimer

SpecLoad == Init /\ [][NextLoad]_vars

(***************************************************************************)
(* Properties.                                                             *)
(***************************************************************************)
Range(seq) == {seq[i] : i \in DOMAIN seq}
IsPrefix(a, b) == Len(a) <= Len(b) /\ SubSeq(b, 1, Len(a)) = a
\* the handlers that are inside processImage, with their multiplicities
InRun == [r \in {x \in Running : x.pc \in RunPcs} |-> procs[r]]
StageSequence == <<Analyzing, Matching, Revealing>>
NonImageFiles == {f \in Files : f.name = "notes.txt"}

\* C1: in every reachable state exactly one screen carries 'active'.
ExactlyOneActive == Cardinality(active) = 1

\* C2: at most one processImage run is in flight at any time.
AtMostOneRun == BagCardinality(InRun) <= 1

\* C3: a run enters Analyzing, Matching, Revealing in this order; it has
\* entered Matching only with a detection result, every landmark point
\* drawn, the connections drawn and the settle wait over; it has entered
\* Revealing only with every switch of the comparison done.
StageOrder ==
    \A r \in Running :
        /\ IsPrefix(r.entered, StageSequence)
        /\ r.pc \in RunPcs => Len(r.entered) >= 1
        /\ Matching \in Range(r.entered) =>
               /\ r.result = "found"
               /\ r.points = NumPoints
               /\ r.connected
               /\ r.settled
        /\ Matching \notin Range(r.entered) => r.switches = 0
        /\ Revealing \in Range(r.entered) =>
               r.switches = MatchingDuration \div SwitchInterval

\* a run that has passed all three stages and waits to show the restart control
StageOrderWitness ==
    \E r \in Running : r.pc = "final" /\ r.entered = StageSequence

\* C4: every change of the active screen is one of the permitted
\* transitions between single screens.
PermittedTransitions ==
    {<<Loading, Upload>>, <<Upload, Capturing>>, <<Upload, Analyzing>>,
     <<Capturing, Analyzing>>, <<Analyzing, Error>>, <<Analyzing, Matching>>,
     <<Matching, Revealing>>, <<Error, Upload>>, <<Revealing, Upload>>,
     <<Capturing, Upload>>}

OnlyPermittedTransitions ==
    [][active' # active =>
          \E t \in PermittedTransitions :
              active = {t[1]} /\ active' = {t[2]}]_vars

\* C5: the camera stream is held only while the Capturing screen is active.
StreamOnlyWhileCapturing == stream => Capturing \in active

\* C6: a denied start() shows the notice and changes nothing else: the
\* screens stay as they were (Upload stays active), no stream is acquired,
\* no handler is started; and Capturing becomes active only in a step in
\* which start() succeeded and the stream is held.
DeniedStep == notice = NoNotice /\ notice' = WebcamNotice

DeniedStaysOnUpload ==
    [][/\ DeniedStep =>
            /\ active' = active
            /\ Upload \in active => Upload \in active'
            /\ stream' = stream
            /\ permPending' = permPending - 1
            /\ UNCHANGED <<subVars, phase, assets, btnDisabled, countdownOverlay,
                           fileInput, procs, flags, errorMessage>>
       /\ (Capturing \notin active /\ Capturing \in active') =>
            /\ stream'
            /\ permPending' = permPending - 1
            /\ notice' = NoNotice]_vars

\* the notice of a denied request is open and the user is on Upload, no
\* stream held
DeniedWitness ==
    notice = WebcamNotice /\ active = {Upload} /\ ~stream

\* C7: selecting a file whose declared type is not an image type, and a
\* failed read or decode, show the notice, change no screen and start no
\* analysis; Analyzing becomes active only in the step in which a pending
\* decode (of the file, or of the captured photo) succeeds.
RejectedTypeStep == fileInput' # fileInput /\ fileInput' \in NonImageFiles
DecodeFailedStep == \E r \in Running : FileDecodeFailed(r)

BadFileStaysOnUpload ==
    [][/\ RejectedTypeStep =>
            /\ notice' = FileNotice
            /\ procs' = procs
            /\ active' = active
       /\ DecodeFailedStep =>
            /\ notice' = FileNotice
            /\ active' = active
            /\ BagCardinality(procs') = BagCardinality(procs) - 1
            /\ \A r \in BagToSet(procs') : r \in Running
       /\ (Analyzing \notin active /\ Analyzing \in active') =>
            \E r \in Running :
                /\ r.pc \in {"decoding", "loadImage"}
                /\ procs' # procs]_vars

\* the notice for a text file is open, the user is on Upload, nothing runs
BadFileWitness ==
    /\ notice = FileNotice
    /\ fileInput \in NonImageFiles
    /\ active = {Upload}
    /\ procs = EmptyBag

\* C8: when detection returns no result the run shows the fixed message,
\* takes 'active' from Analyzing and gives it to Error, and ends; a run that
\* entered Matching had a result; the only message ever shown is the fixed
\* one; retry takes 'active' from Error and gives it to Upload.
NoResultStep(r) == r.pc = "detecting" /\ procs' = Remove(r)

NoFaceGoesToError ==
    /\ [](errorMessage \in {"", NoFaceMessage})
    /\ [](\A r \in Running :
             Range(r.entered) \cap {Matching, Revealing} # {} =>
                 r.result = "found")
    /\ [][/\ \A r \in Running :
               NoResultStep(r) =>
                   /\ errorMessage' = NoFaceMessage
                   /\ Analyzing \notin active'
                   /\ Error \in active'
                   /\ active' \ {Error} = active \ {Analyzing, Error}
          /\ handleRetry =>
               /\ Error \notin active'
               /\ Upload \in active'
               /\ active' \ {Upload} = active \ {Error, Upload}]_vars

\* the Error screen alone is active, showing the fixed message, after a run
\* that never got past Analyzing
NoFaceWitness ==
    /\ active = {Error}
    /\ errorMessage = NoFaceMessage
    /\ procs = EmptyBag
    /\ flags = {}

\* C9: after retry the application is at Upload with capture state cleared:
\* no stream held and no file left in the file input.
RetryClearsCaptureState ==
    [][handleRetry =>
          /\ Upload \in active'
          /\ ~stream'
          /\ fileInput' = NoFile]_vars

\* C10: no state after loading is a dead end; in particular, a state in
\* which Upload is not active has some step left to take.
NoDeadEnd ==
    phase = "ready" => (Upload \in active \/ ENABLED <<Next>>_vars)

\* C11: the snapshot is taken after exactly three ticks of the countdown,
\* which showed 3, 2, 1, that is 3000 ms after the countdown started.
CountdownThreeTicks ==
    \A r \in Running :
        r.pc = "toBlob" => r.shown = <<3, 2, 1>> /\ r.elapsed = 3000

\* C15: restart leaves Upload active, the six reveal flags cleared and the
\* file input empty, and no flag is set again until a run enters Revealing:
\* whenever the Revealing screen is not active, no reveal flag is set.
RestartClearsReveal ==
    Revealing \notin active => flags = {}

(***************************************************************************)
(* One run in detail (SpecShow): the parts of a run that use the loaded    *)
(* assets.  Camera.capturePhoto with its two sound cues, then              *)
(* startMatchingSequence / Animation.animateMatching, then startReveal /   *)
(* Animation.animateReveal.  The analysis between capture and matching     *)
(* uses no asset and is passed over in one step.  The repository holds two *)
(* revisions of the Animation class (scripts/animation.js, and an unnamed  *)
(* file that prepares the audio first); both are explored.                 *)
(***************************************************************************)
Variants == {"scripts", "unnamed"}

\* the loads of a loadAll() that has resolved, the set F having failed; the
\* models have loaded (no face is detected without them)
SettledLoad(a, failed) ==
    [promise |-> "fulfilled",
     value |-> IF a = ModelsAsset THEN "true"
               ELSE IF failed THEN "null" ELSE "handle",
     canplay |-> a \in SoundAssets /\ failed,
     error |-> a \in SoundAssets /\ ~failed]

SettledLoads ==
    {[a \in Assets |-> SettledLoad(a, a \in F)] :
        F \in SUBSET (Assets \ {ModelsAsset})}

\* Math.random() in [0, 1), as numerators over RandomDenominator
RandomValues == {0, 1, 499, 500, 975, 976, 999}

\* Preloader.generatePlaceholderImages / getPlaceholderSloth: the src of each entry
CharacterSrc(i) == <<"assets/images/characters", i>>
SlothSrc == <<"assets/images/characters", 0>>
generatePlaceholderImages == [i \in 1..NumCharacters |-> CharacterSrc(i)]
getPlaceholderSloth == SlothSrc

\* a set of portrait assets as an array, in the order loadAll asked for them
RECURSIVE ImagesArray(_, _)
ImagesArray(images, i) ==
    IF i > NumCharacters THEN <<>>
    ELSE (IF <<"character", i>> \in images THEN <<CharacterSrc(i)>> ELSE <<>>)
         \o ImagesArray(images, i + 1)

\* MovieDoppelgangerApp.getCharacterImages
getCharacterImages(b) ==
    IF Len(ImagesArray(b.images, 1)) > 0
    THEN ImagesArray(b.images, 1)
    ELSE generatePlaceholderImages

\* Animation.shuffleArray: every result the random draws can give
Swap(arr, i, j) == [arr EXCEPT ![i] = arr[j], ![j] = arr[i]]
RECURSIVE ShuffleFrom(_, _)
ShuffleFrom(arr, i) ==
    IF i <= 1 THEN {arr}
    ELSE UNION {ShuffleFrom(Swap(arr, i, j), i - 1) : j \in 1..i}
shuffleArray(array) == ShuffleFrom(array, Len(array))

\* a traversal that takes every other entry
characterIndexSkipping(currentSwitch, length) == (2 * currentSwitch) % length

\* animateMatching, line 86 (0-based index into the shuffled array)
characterIndex(currentSwitch, length) == currentSwitch % length

\* animateMatching, line 94, for Math.random() = rnd / RandomDenominator
percentage(rnd) == (rnd * PercentageSpan) \div RandomDenominator + PercentageBase

\* a playSound that uses the handle without looking at it
playSoundUnguarded(sound) == IF sound THEN "played" ELSE "TypeError"

\* Camera.playSound (and the `if (trumpetSound)` of animateReveal): an
\* absent handle is skipped; a play() that throws or rejects is caught
playSound(sound) == IF sound THEN "played" ELSE "skipped"

NewShow(variant, kind) ==
    [variant |-> variant, kind |-> kind,
     pc |-> IF kind = "photo" THEN "capture" ELSE "analysis",
     count |-> CountdownStart,
     audio |-> <<>>,            \* the cues asked for, each with its outcome
     plays |-> {"played"},      \* what play() may do in this run
     characterImages |-> <<>>,  \* the array animateMatching was called with
     duration |-> ShowDuration, \* the duration animateMatching was called with
     shuffled |-> <<>>, currentSwitch |-> 0,
     characterImg |-> <<"none", 0>>, matchPercentage |-> PercentageBase,
     shown |-> <<>>,            \* the candidates displayed, in order
     resultSrc |-> <<"none", 0>>,
     ready |-> FALSE,           \* trumpet.readyState >= 2
     elapsed |-> 0]             \* ms of scripted waits since Revealing was entered

InitShow ==
    /\ \E ls \in SettledLoads, variant \in Variants, kind \in {"photo", "file"} :
           /\ loads = ls
           /\ bundle = StoredAssets(ls)
           /\ show = NewShow(variant, kind)
           /\ active = IF kind = "photo" THEN {Capturing} ELSE {Analyzing}
           /\ stream = (kind = "photo")
    /\ totalAssets = NumCharacters + Len(SoundNames) + ModelComponents + 1
    /\ loadedAssets = NumCharacters + Len(SoundNames) + ModelComponents + 1
    /\ progress = updateProgress(loadedAssets, totalAssets)
    /\ loadAllPromise = "fulfilled"
    /\ crop = IdleCrop
    /\ phase = "ready"
    /\ assets = "bundle"
    /\ permPending = 0
    /\ btnDisabled = FALSE
    /\ countdownOverlay = FALSE
    /\ fileInput = NoFile
    /\ procs = EmptyBag
    /\ flags = {}
    /\ errorMessage = ""
    /\ notice = NoNotice

ShowFrame ==
    UNCHANGED <<phase, assets, permPending, fileInput, procs,
                errorMessage, notice, totalAssets, loadedAssets, progress,
                loads, loadAllPromise, bundle, crop>>

\* what play() can do: play, return a promise that rejects, throw, or
\* return a promise that settles long after
PlayOutcomes == {"played", "rejected", "threw", "late"}

\* a playSound without its try block
PlayFailureEscapesUncaught(play) == play = "threw"

\* Camera.playSound, lines 65-79 (and animateReveal's trumpet block): the
\* try block catches a play() that throws, the .catch() a promise that
\* rejects, and the promise is not awaited: nothing reaches the caller
PlayFailureEscapes(play) == play \in {}

\* a cue is asked for and play() does `play`: the run goes on unless
\* something was thrown to the caller
Cue(sh, name, pc, play) ==
    LET asked == playSound(bundle.sounds[name])
        outcome == IF asked = "played" THEN play ELSE asked
    IN  [sh EXCEPT !.audio = Append(@, <<name, outcome>>),
                   !.pc = IF outcome = "TypeError"
                             \/ (asked = "played" /\ PlayFailureEscapes(play))
                          THEN "failed" ELSE pc]

\* handleTakePhoto and Camera.startCountdown up to the first tick
startCountdown ==
    /\ show.pc = "capture"
    /\ btnDisabled' = TRUE
    /\ countdownOverlay' = TRUE
    /\ \E play \in show.plays :
           show' = Cue(show, "timerBeep", "countdown", play)
    /\ UNCHANGED <<active, stream, flags>>
    /\ ShowFrame

\* a countdown that asks for the beep at every tick
capturePhotoBeepPerTick ==
    /\ show.pc = "countdown"
    /\ IF CountdownOver(show.count - 1)
       THEN /\ \E play \in show.plays :
                   show' = Cue([show EXCEPT !.count = @ - 1],
                               "cameraShutter", "analysis", play)
            /\ countdownOverlay' = FALSE
            /\ stream' = FALSE
            /\ active' = switchScreen(switchScreen(active, Upload, Analyzing),
                                      Capturing, Analyzing)
       ELSE /\ \E play \in show.plays :
                   show' = Cue([show EXCEPT !.count = @ - 1],
                               "timerBeep", "countdown", play)
            /\ UNCHANGED <<countdownOverlay, stream, active>>
    /\ UNCHANGED <<btnDisabled, flags>>
    /\ ShowFrame

\* a tick of the countdown; after the last one Camera.capturePhoto plays the
\* shutter cue and snapshots; the photo is decoded and analysed, a face found
\* and its landmarks drawn (processImage, which uses no asset)
capturePhoto ==
    /\ show.pc = "countdown"
    /\ IF CountdownOver(show.count - 1)
       THEN /\ \E play \in show.plays :
                   show' = Cue([show EXCEPT !.count = @ - 1],
                               "cameraShutter", "analysis", play)
            /\ countdownOverlay' = FALSE
            /\ stream' = FALSE
            /\ active' = switchScreen(switchScreen(active, Upload, Analyzing),
                                      Capturing, Analyzing)
       ELSE /\ show' = [show EXCEPT !.count = @ - 1]
            /\ UNCHANGED <<countdownOverlay, stream, active>>
    /\ UNCHANGED <<btnDisabled, flags>>
    /\ ShowFrame

\* startMatchingSequence up to the first tick of animateMatching
startMatchingSequence ==
    /\ show.pc = "analysis"
    /\ active' = switchScreen(active, Analyzing, Matching)
    /\ \E shuffledCharacters \in shuffleArray(getCharacterImages(bundle)) :
           show' = [show EXCEPT !.pc = "matching",
                                !.characterImages = getCharacterImages(bundle),
                                !.duration = ShowDuration,
                                !.shuffled = shuffledCharacters]
    /\ UNCHANGED <<btnDisabled, countdownOverlay, stream, flags>>
    /\ ShowFrame

\* a startReveal that shows the first candidate of the pool when the result
\* image did not load
slothImageFromPool(b) ==
    IF b.slothImage THEN SlothSrc ELSE getCharacterImages(b)[1]

\* startReveal, line 574: the src of the loaded result image (the URL that
\* loadAll asked for, line 140) or of the placeholder
slothImage(b) ==
    IF b.slothImage THEN SlothSrc ELSE getPlaceholderSloth

\* the waits of animateReveal, in order (lines 120, 124, 138, 142, 161, 170)
RevealWaits == <<2500, 300, 1500, 1000, 1000, 1000>>
\* the unnamed revision: the prepareAudio timeout and the wait before play()
PrepareTimeoutMs == 2000
AudioWaitMs == 100

\* animateReveal sets the match-found banner and waits 2500 ms
EnterFlash(sh) ==
    /\ show' = [sh EXCEPT !.pc = "flash"]
    /\ flags' = flags \cup {"match-found-flash"}

\* prepareAudio from `readyState >= 2 && paused` on (unnamed, lines 141-160):
\* with a ready and paused element play() is called, which throws (caught)
\* or returns a promise that is awaited
UnlockAudio(sh) ==
    IF sh.ready
    THEN \E paused \in BOOLEAN, throws \in BOOLEAN :
             IF paused /\ ~throws
             THEN show' = [sh EXCEPT !.pc = "unlock"] /\ UNCHANGED flags
             ELSE EnterFlash(sh)
    ELSE EnterFlash(sh)

\* startReveal and animateReveal up to its first await.  The unnamed
\* revision first prepares the trumpet, if there is one
startReveal(sh) ==
    /\ active' = switchScreen(active, Matching, Revealing)
    /\ IF sh.variant = "unnamed" /\ bundle.sounds["trumpet"]
       THEN \E ready \in BOOLEAN :
                IF ready
                THEN UnlockAudio([sh EXCEPT !.ready = TRUE])
                ELSE show' = [sh EXCEPT !.pc = "prepare"] /\ UNCHANGED flags
       ELSE EnterFlash(sh)

\* one tick of the switch interval of animateMatching (lines 84-103); the
\* last one resolves it and startReveal runs
animateMatching ==
    /\ show.pc = "matching"
    /\ \E rnd \in RandomValues :
           LET length == Len(show.shuffled)
               character ==
                   IF length = 0 THEN show.characterImg
                   ELSE show.shuffled[characterIndex(show.currentSwitch, length) + 1]
               sh == [show EXCEPT !.characterImg = character,
                                  !.shown = Append(@, character),
                                  !.matchPercentage = percentage(rnd),
                                  !.currentSwitch = @ + 1]
           IN  IF MatchingOver(sh.currentSwitch, show.duration)
               THEN startReveal([sh EXCEPT !.pc = "reveal"])
               ELSE show' = sh /\ UNCHANGED <<active, flags>>
    /\ UNCHANGED <<btnDisabled, countdownOverlay, stream>>
    /\ ShowFrame

RevealStepFrame ==
    /\ UNCHANGED <<active, btnDisabled, countdownOverlay, stream>>
    /\ ShowFrame

\* prepareAudio: canplay / canplaythrough arrives with readyState >= 2
PrepareReady ==
    /\ show.pc = "prepare"
    /\ UnlockAudio([show EXCEPT !.ready = TRUE])
    /\ RevealStepFrame

\* prepareAudio: the 2000 ms timeout ends the wait, the element is not ready
PrepareTimeout ==
    /\ show.pc = "prepare"
    /\ EnterFlash([show EXCEPT !.elapsed = @ + PrepareTimeoutMs])
    /\ RevealStepFrame

\* prepareAudio: the promise of play() settles, either way
UnlockSettled ==
    /\ show.pc = "unlock"
    /\ EnterFlash(show)
    /\ RevealStepFrame

\* wait(2500) is over: the banner is cleared
ShowFlashDone ==
    /\ show.pc = "flash"
    /\ show' = [show EXCEPT !.pc = "pause", !.elapsed = @ + RevealWaits[1]]
    /\ flags' = flags \ {"match-found-flash"}
    /\ RevealStepFrame

\* wait(300) is over: the panel, the user's crop, the result image's src
ShowPauseDone ==
    /\ show.pc = "pause"
    /\ show' = [show EXCEPT !.pc = "hold", !.elapsed = @ + RevealWaits[2],
                            !.resultSrc = slothImage(bundle)]
    /\ flags' = flags \cup {"reveal-content"}
    /\ RevealStepFrame

\* wait(1500) is over: the user's crop starts to fade out
ShowHoldDone ==
    /\ show.pc = "hold"
    /\ show' = [show EXCEPT !.pc = "fadeOut", !.elapsed = @ + RevealWaits[3]]
    /\ flags' = flags \cup {"fade-out"}
    /\ RevealStepFrame

\* the trumpet is asked for and the result image fades in
PlayTrumpet(sh) ==
    /\ \E play \in sh.plays : show' = Cue(sh, "trumpet", "fadeIn", play)
    /\ flags' = IF show'.pc = "fadeIn" THEN flags \cup {"fade-in"} ELSE flags

\* wait(1000) is over.  The unnamed revision, with a trumpet, waits 100 ms
\* more before it plays
ShowFadeOutDone ==
    /\ show.pc = "fadeOut"
    /\ LET sh == [show EXCEPT !.elapsed = @ + RevealWaits[4]]
       IN  IF sh.variant = "unnamed" /\ bundle.sounds["trumpet"]
           THEN show' = [sh EXCEPT !.pc = "audioWait"] /\ UNCHANGED flags
           ELSE PlayTrumpet(sh)
    /\ RevealStepFrame

\* wait(100) is over (unnamed, line 217)
ShowAudioWaitDone ==
    /\ show.pc = "audioWait"
    /\ PlayTrumpet([show EXCEPT !.elapsed = @ + AudioWaitMs])
    /\ RevealStepFrame

\* wait(1000) is over: the caption
ShowFadeInDone ==
    /\ show.pc = "fadeIn"
    /\ show' = [show EXCEPT !.pc = "final", !.elapsed = @ + RevealWaits[5]]
    /\ flags' = flags \cup {"reveal-text"}
    /\ RevealStepFrame

\* the last wait(1000) is over: the restart control
ShowFinalDone ==
    /\ show.pc = "final"
    /\ show' = [show EXCEPT !.pc = "done", !.elapsed = @ + RevealWaits[6]]
    /\ flags' = flags \cup {"restart-btn"}
    /\ btnDisabled' = FALSE
    /\ UNCHANGED <<active, countdownOverlay, stream>>
    /\ ShowFrame

NextShow ==
    \/ startCountdown
    \/ capturePhoto
    \/ startMatchingSequence
    \/ animateMatching
    \/ PrepareReady
    \/ PrepareTimeout
    \/ UnlockSettled
    \/ ShowFlashDone
    \/ ShowPauseDone
    \/ ShowHoldDone
    \/ ShowFadeOutDone
    \/ ShowAudioWaitDone
    \/ ShowFadeInDone
    \/ ShowFinalDone

SpecShow == InitShow /\ [][NextShow]_vars

(***************************************************************************)
(* A run whose sounds all loaded and whose play() calls may fail.          *)
(***************************************************************************)
InitAudio ==
    /\ \E variant \in Variants, kind \in {"photo", "file"} :
           /\ show = [NewShow(variant, kind) EXCEPT !.plays = PlayOutcomes]
           /\ active = IF kind = "photo" THEN {Capturing} ELSE {Analyzing}
           /\ stream = (kind = "photo")
    /\ loads = [a \in Assets |-> SettledLoad(a, FALSE)]
    /\ bundle = StoredAssets(loads)
    /\ crop = IdleCrop
    /\ totalAssets = NumCharacters + Len(SoundNames) + ModelComponents + 1
    /\ loadedAssets = NumCharacters + Len(SoundNames) + ModelComponents + 1
    /\ progress = updateProgress(loadedAssets, totalAssets)
    /\ loadAllPromise = "fulfilled"
    /\ phase = "ready"
    /\ assets = "bundle"
    /\ permPending = 0
    /\ btnDisabled = FALSE
    /\ countdownOverlay = FALSE
    /\ fileInput = NoFile
    /\ procs = EmptyBag
    /\ flags = {}
    /\ errorMessage = ""
    /\ notice = NoNotice

\* timers fire and promises settle: a step that can be taken is taken
SpecAudio == InitAudio /\ [][NextShow]_vars /\ WF_vars(NextShow)

(***************************************************************************)
(* Animation.shuffleArray and Animation.animateMatching on their own, for  *)
(* any array and any duration.                                             *)
(***************************************************************************)
\* the durations animateMatching is called with, in ms
Durations == {0, 100, 200, 399, 600, 1000, ShowDuration}

\* the arrays it is called with: empty, of one element, with an element
\* twice, of MaxShuffled elements, and the full placeholder list
Pools ==
    {<<>>, <<CharacterSrc(1)>>,
     <<CharacterSrc(1), CharacterSrc(2), CharacterSrc(1)>>,
     [i \in 1..MaxShuffled |-> CharacterSrc(i)],
     [i \in 1..PlaceholderCount |-> CharacterSrc(i)]}

\* array rotated left by k places
Rotated(array, k) ==
    [i \in 1..Len(array) |-> array[((i - 1 + k) % Len(array)) + 1]]

\* the results of shuffleArray that are explored: all of them for a short
\* array, the unchanged, two rotated and the reversed order for a long one
SampleShuffles(array) ==
    IF Len(array) <= MaxShuffled
    THEN shuffleArray(array)
    ELSE {array, Rotated(array, 1), Rotated(array, 7),
          [i \in 1..Len(array) |-> array[Len(array) + 1 - i]]}

\* a shuffle that works in the array it was given
ArrayAfterShuffleInPlace(array, shuffled) == shuffled

\* shuffleArray, line 60: the swaps are made in a copy, the argument keeps
\* its content
ArrayAfterShuffle(array, shuffled) == array

InitMatch ==
    /\ \E variant \in Variants : show = NewShow(variant, "file")
    /\ loads = [a \in Assets |-> SettledLoad(a, FALSE)]
    /\ bundle = StoredAssets(loads)
    /\ crop = IdleCrop
    /\ totalAssets = NumCharacters + Len(SoundNames) + ModelComponents + 1
    /\ loadedAssets = NumCharacters + Len(SoundNames) + ModelComponents + 1
    /\ progress = updateProgress(loadedAssets, totalAssets)
    /\ loadAllPromise = "fulfilled"
    /\ phase = "ready"
    /\ assets = "bundle"
    /\ active = {Matching}
    /\ stream = FALSE
    /\ permPending = 0
    /\ btnDisabled = FALSE
    /\ countdownOverlay = FALSE
    /\ fileInput = NoFile
    /\ procs = EmptyBag
    /\ flags = {}
    /\ errorMessage = ""
    /\ notice = NoNotice

\* animateMatching is called (line 71)
AnimateMatchingCall ==
    /\ show.pc = "analysis"
    /\ \E characterImages \in Pools, duration \in Durations :
           show' = [show EXCEPT !.pc = "shuffling",
                                !.characterImages = characterImages,
                                !.duration = duration]
    /\ RevealStepFrame
    /\ UNCHANGED flags

\* animateMatching, lines 76-84: the array is shuffled and the interval set
ShuffleOnce ==
    /\ show.pc = "shuffling"
    /\ \E shuffled \in SampleShuffles(show.characterImages) :
           show' = [show EXCEPT
                        !.pc = "matching",
                        !.shuffled = shuffled,
                        !.characterImages = ArrayAfterShuffle(@, shuffled)]
    /\ RevealStepFrame
    /\ UNCHANGED flags

\* the call, the run, and the reveal that follows it
NextMatch ==
    \/ AnimateMatchingCall
    \/ ShuffleOnce
    \/ animateMatching
    \/ PrepareReady
    \/ PrepareTimeout
    \/ UnlockSettled
    \/ ShowFlashDone
    \/ ShowPauseDone
    \/ ShowHoldDone
    \/ ShowFadeOutDone
    \/ ShowAudioWaitDone
    \/ ShowFadeInDone
    \/ ShowFinalDone

SpecMatch == InitMatch /\ [][NextMatch]_vars

(***************************************************************************)
(* FaceDetection.processImage: detectFace and cropToFace.  Lengths are     *)
(* numbers of units, Scale units to the pixel, so that the fractions the   *)
(* detector returns and the halves cropToFace computes are exact.          *)
(***************************************************************************)
Scale == 2 * SubPixel

Max(a, b) == IF a > b THEN a ELSE b

Min(a, b) == IF a < b THEN a ELSE b

\* the sizes <<width, height>>, in pixels, of the images handed to
\* MovieDoppelgangerApp.processImage: some that fit, some that are shrunk
\* along either axis, and some so thin that the shrunk side is under a pixel
SourceImages ==
    {<<200, 160>>, <<400, 500>>, <<100, 100>>, <<800, 800>>, <<640, 480>>,
     <<1600, 800>>, <<1601, 800>>, <<801, 801>>, <<900, 1400>>, <<1000, 3>>,
     <<2000, 1>>, <<1, 900>>}

\* lengths on the sub-pixel grid: whole pixels plus a fraction
Grid(pixels) ==
    {px * Scale + 2 * f : px \in pixels, f \in 0..(SubPixel - 1)}

\* detection.detection.box: the detector clips a box to the image it was
\* given and reports it in fractional pixels
Boxes(canvas) ==
    {b \in [x : Grid({0, 20, 70}), y : Grid({0, 20, 70}),
            width : Grid({30, 90}), height : Grid({30, 90})] :
        /\ b.x + b.width <= canvas.width * Scale
        /\ b.y + b.height <= canvas.height * Scale}

\* assigning a length to canvas.width or canvas.height stores whole pixels
CanvasDimension(length) == length \div Scale

\* FaceDetection.cropToFace: the returned canvas and offset, and the source
\* rectangle and destination it passes to drawImage
cropToFace(canvas, box, padding) ==
    LET x == Max(0, box.x - padding * Scale)
        y == Max(0, box.y - padding * Scale)
        width == Min(canvas.width * Scale - x, box.width + padding * 2 * Scale)
        height == Min(canvas.height * Scale - y, box.height + padding * 2 * Scale)
        size == Max(width, height)
        offsetX == (size - width) \div 2
        offsetY == (size - height) \div 2
    IN  [canvas |-> [width |-> CanvasDimension(size),
                     height |-> CanvasDimension(size)],
         x |-> x, y |-> y, width |-> width, height |-> height,
         size |-> size, offsetX |-> offsetX, offsetY |-> offsetY,
         offset |-> [x |-> x - offsetX, y |-> y - offsetY]]

\* the positions of detection.landmarks: points of the detected box
Landmarks(box) ==
    [i \in 1..NumPoints |->
        [x |-> box.x + (box.width * i) \div (NumPoints + 1),
         y |-> box.y + (box.height * i) \div (NumPoints + 1)]]

\* what FaceDetection.processImage returns: null, or the cropped canvas,
\* the detection and the offset
ZeroFilledResult ==
    [kind |-> "result",
     canvas |-> [width |-> 0, height |-> 0],
     detection |-> [box |-> [x |-> 0, y |-> 0, width |-> 0, height |-> 0],
                    landmarks |-> <<>>],
     offset |-> [x |-> 0, y |-> 0]]

NullResult ==
    [kind |-> "null"]

processImageResult(canvas, box, padding) ==
    LET cropped == cropToFace(canvas, box, padding)
    IN  [kind |-> "result",
         canvas |-> cropped.canvas,
         detection |-> [box |-> box, landmarks |-> Landmarks(box)],
         offset |-> cropped.offset]

InitCrop ==
    /\ \E image \in SourceImages : crop = [pc |-> "image", image |-> image]
    /\ loads = [a \in Assets |-> SettledLoad(a, FALSE)]
    /\ bundle = StoredAssets(loads)
    /\ show = IdleShow
    /\ totalAssets = NumCharacters + Len(SoundNames) + ModelComponents + 1
    /\ loadedAssets = NumCharacters + Len(SoundNames) + ModelComponents + 1
    /\ progress = updateProgress(loadedAssets, totalAssets)
    /\ loadAllPromise = "fulfilled"
    /\ phase = "ready"
    /\ assets = "bundle"
    /\ active = {Analyzing}
    /\ stream = FALSE
    /\ permPending = 0
    /\ btnDisabled = FALSE
    /\ countdownOverlay = FALSE
    /\ fileInput = NoFile
    /\ procs = EmptyBag
    /\ flags = {}
    /\ errorMessage = ""
    /\ notice = NoNotice

CropFrame ==
    UNCHANGED <<phase, assets, stream, permPending, btnDisabled,
                countdownOverlay, fileInput, procs, flags, notice,
                totalAssets, loadedAssets, progress, loads,
                loadAllPromise, bundle, show>>

\* MovieDoppelgangerApp.processImage, lines 476-483: the image is resized
\* and the resized canvas drawn, which throws when it has an empty side
ResizeAndDraw ==
    /\ crop.pc = "image"
    /\ LET c == resizeImage(crop.image, MaxResize, MaxResize)
       IN  crop' = [pc |-> IF DrawThrows(c) THEN "threw" ELSE "canvas",
                    image |-> crop.image,
                    canvas |-> [width |-> c[1], height |-> c[2]]]
    /\ UNCHANGED <<active, errorMessage>>
    /\ CropFrame

\* detectFace resolves with a detection
detectFace ==
    /\ crop.pc = "canvas"
    /\ \E box \in Boxes(crop.canvas) :
           crop' = [pc |-> "detected", image |-> crop.image,
                    canvas |-> crop.canvas, box |-> box]
    /\ UNCHANGED <<active, errorMessage>>
    /\ CropFrame

\* the detector resolves with nothing: FaceDetection.processImage returns
\* null (lines 210-212)
NoDetection ==
    /\ crop.pc = "canvas"
    /\ crop' = [pc |-> "returned", image |-> crop.image,
                canvas |-> crop.canvas, thrown |-> FALSE,
                result |-> NullResult]
    /\ UNCHANGED <<active, errorMessage>>
    /\ CropFrame

\* a detectFace without its catch: the detector's exception is what the
\* awaiting processImage gets
DetectionErrorUncaught ==
    /\ crop.pc = "canvas"
    /\ crop' = [pc |-> "threw", image |-> crop.image, canvas |-> crop.canvas,
                thrown |-> TRUE]
    /\ UNCHANGED <<active, errorMessage>>
    /\ CropFrame

\* the detector throws: detectFace catches, logs and returns null (lines
\* 20-23), and FaceDetection.processImage returns null
DetectionError ==
    /\ crop.pc = "canvas"
    /\ crop' = [pc |-> "returned", image |-> crop.image,
                canvas |-> crop.canvas, thrown |-> TRUE,
                result |-> NullResult]
    /\ UNCHANGED <<active, errorMessage>>
    /\ CropFrame

\* FaceDetection.processImage crops to the detection and returns
CropToFace ==
    /\ crop.pc = "detected"
    /\ crop' = [pc |-> "cropped", image |-> crop.image,
                canvas |-> crop.canvas, box |-> crop.box,
                cropped |-> cropToFace(crop.canvas, crop.box, Padding),
                result |-> processImageResult(crop.canvas, crop.box, Padding)]
    /\ UNCHANGED <<active, errorMessage>>
    /\ CropFrame

\* MovieDoppelgangerApp.processImage, lines 490-495: no result, showError
ShowNoFace ==
    /\ crop.pc = "returned"
    /\ LET e == showError(active, NoFaceMessage)
       IN  /\ errorMessage' = e.text
           /\ active' = e.act
    /\ crop' = [crop EXCEPT !.pc = "error"]
    /\ CropFrame

\* MovieDoppelgangerApp.processImage, lines 497-504: the cropped canvas is
\* drawn and kept
ShowCropped ==
    /\ crop.pc = "cropped"
    /\ crop' = [crop EXCEPT !.pc = "landmarks"]
    /\ UNCHANGED <<active, errorMessage>>
    /\ CropFrame

NextCrop ==
    \/ ResizeAndDraw
    \/ detectFace
    \/ NoDetection
    \/ DetectionError
    \/ CropToFace
    \/ ShowNoFace
    \/ ShowCropped

SpecCrop == InitCrop /\ [][NextCrop]_vars

AllSettled == \A a \in Assets : loads[a].promise \in {"fulfilled", "rejected"}

\* C16: loadAll() never rejects, and it has resolved only when every load
\* has settled; what it resolved with is the bundle of the handles that
\* loaded, an absent handle for each load that failed.
LoadAllNeverRejects ==
    /\ loadAllPromise # "rejected"
    /\ loadAllPromise = "fulfilled" =>
           /\ AllSettled
           /\ assets = "bundle"
           /\ bundle.images = {a \in CharacterAssets : loads[a].value = "handle"}
           /\ bundle.slothImage = (loads[SlothAsset].value = "handle")
           /\ \A i \in 1..Len(SoundNames) :
                  bundle.sounds[SoundNames[i]] = (loads[<<"sound", i>>].value = "handle")

\* loadAll() has resolved although a portrait, the result image, a sound and
\* the models all failed
LoadAllWitness ==
    /\ loadAllPromise = "fulfilled"
    /\ \E a \in CharacterAssets : loads[a].value = "null"
    /\ loads[SlothAsset].value = "null"
    /\ \E a \in SoundAssets : loads[a].value = "null"
    /\ loads[ModelsAsset].value = "false"

\* C17: once loadAll() has set the total, the reported progress is 1.0
\* exactly when every asset has settled (and below 1.0 while one is pending).
ProgressFullIffSettled ==
    loadAllPromise # "idle" =>
        /\ progress[1] = loadedAssets
        /\ (loadedAssets = totalAssets) <=> AllSettled
        /\ ~AllSettled => loadedAssets < totalAssets

\* C18: the loaded counter never exceeds the total counter.
LoadedNeverExceedsTotal == loadedAssets <= totalAssets

BeforeMatching == {"capture", "countdown", "analysis"}
\* the pool the comparison must use: the loaded portraits if there is one,
\* otherwise every placeholder
ExpectedPool ==
    IF bundle.images # {}
    THEN {CharacterSrc(a[2]) : a \in bundle.images}
    ELSE {CharacterSrc(i) : i \in 1..NumCharacters}

\* C12: a 5000 ms comparison run makes exactly 25 switches before it
\* resolves; every percentage shown is an integer in [20,60]; the k-th
\* candidate shown (k = 0, 1, ...) is element k mod P of one arrangement of
\* the pool, each member of the pool appearing in it exactly once.
MatchingRun ==
    /\ show.matchPercentage \in 20..60
    /\ show.pc \notin (BeforeMatching \cup {"idle"}) =>
           LET P == Len(show.shuffled)
           IN  /\ P >= 1
               /\ Range(show.shuffled) = ExpectedPool
               /\ Cardinality(ExpectedPool) = P
               /\ Len(show.shown) = show.currentSwitch
               /\ \A k \in 0..(Len(show.shown) - 1) :
                      show.shown[k + 1] = show.shuffled[(k % P) + 1]
               /\ show.pc = "matching" => Len(show.shown) < 25
               /\ show.pc # "matching" => Len(show.shown) = 25

\* a run whose comparison has resolved after going round a two-member pool
MatchingRunWitness ==
    /\ show.pc = "flash"
    /\ Len(show.shuffled) = 2
    /\ show.shuffled[1] = CharacterSrc(2)
    /\ show.matchPercentage = 60
    /\ Len(show.shown) = 25

\* C13: the restart control appears after exactly 7300 ms of scripted
\* waits since Revealing was entered, with or without the trumpet and
\* however its playback goes.
RevealTakes7300 ==
    show.pc = "done" => show.elapsed = 7300

\* C14: whatever was loaded and whatever the comparison showed, the result
\* image of the reveal has the one fixed source.
RevealOutcomeFixed ==
    /\ show.pc # "idle" => show.resultSrc \in {<<"none", 0>>, SlothSrc}
    /\ show.pc \in {"hold", "fadeOut", "audioWait", "fadeIn", "final", "done"} =>
           show.resultSrc = SlothSrc

\* the reveal is over in a run whose result image had failed to load and
\* whose comparison ended on a portrait
RevealOutcomeWitness ==
    /\ show.pc = "done"
    /\ ~bundle.slothImage
    /\ show.characterImg = CharacterSrc(1)
    /\ show.resultSrc = SlothSrc

\* C19: whichever optional assets failed, the run goes on to the restart
\* control: no cue request throws (an absent handle is skipped, a present
\* one is played), the pool is never empty, the result image has a source,
\* and until the restart control is shown there is always a next step.
DegradedRunGoesOn ==
    /\ show.pc # "failed"
    /\ show.pc # "idle" =>
           \A i \in 1..Len(show.audio) :
               show.audio[i][2] =
                   IF bundle.sounds[show.audio[i][1]] THEN "played" ELSE "skipped"
    /\ show.pc \notin (BeforeMatching \cup {"idle"}) =>
           /\ Len(show.shuffled) >= 1
           /\ Range(show.shuffled) = ExpectedPool
    /\ "reveal-content" \in flags => show.resultSrc # <<"none", 0>>
    /\ show.pc \notin {"idle", "done"} => ENABLED <<NextShow>>_vars
    /\ show.pc = "done" => "restart-btn" \in flags /\ active = {Revealing}

\* the restart control is shown after a capture for which no portrait, no
\* result image and no sound had loaded
DegradedRunWitness ==
    /\ show.pc = "done"
    /\ show.kind = "photo"
    /\ bundle.images = {}
    /\ ~bundle.slothImage
    /\ \A i \in 1..Len(SoundNames) : ~bundle.sounds[SoundNames[i]]
    /\ Len(show.audio) = 3

\* C20: whatever the source size and the detected box, the surface that
\* cropToFace returns is square, and its side is the larger of the padded
\* and clamped crop width and crop height.
CropIsSquareOfLargerSide ==
    crop.pc \in {"cropped", "landmarks"} =>
        /\ crop.cropped.canvas.width = crop.cropped.canvas.height
        /\ crop.cropped.canvas.width * Scale =
               Max(crop.cropped.width, crop.cropped.height)

\* C21: whatever the source size and the detected box, the offset that
\* cropToFace records is at least 0 on both axes, and the offset plus the
\* crop width (height) is at most the source width (height).
OffsetClampedInSource ==
    crop.pc \in {"cropped", "landmarks"} =>
        /\ crop.cropped.offset.x >= 0
        /\ crop.cropped.offset.y >= 0
        /\ crop.cropped.offset.x + crop.cropped.width
               <= crop.canvas.width * Scale
        /\ crop.cropped.offset.y + crop.cropped.height
               <= crop.canvas.height * Scale

\* the canvas that MovieDoppelgangerApp.processImage resized the image to
\* has been drawn and is the one the detector is given
HandedToDetector == crop.pc \notin {"image", "threw"}

AnalysisResultOrNull ==
    /\ crop.pc \in {"returned", "error"} => crop.result = [kind |-> "null"]
    /\ crop.pc \in {"cropped", "landmarks"} =>
           /\ crop.result.kind = "result"
           /\ crop.result.detection.box = crop.box
           /\ crop.box.width > 0 /\ crop.box.height > 0
           /\ Len(crop.result.detection.landmarks) = NumPoints
           /\ crop.result.canvas.width > 0
           /\ crop.result.canvas.height > 0
           /\ crop.result.offset = cropToFace(crop.canvas, crop.box, Padding).offset
           /\ Error \notin active
           /\ errorMessage = ""
    /\ crop.pc = "error" => active = {Error} /\ errorMessage = NoFaceMessage
    /\ crop.pc # "error" => Error \notin active

\* the detector threw, the analysis returned null and the Error screen is up
AnalysisNullWitness ==
    /\ crop.pc = "error"
    /\ crop.thrown
    /\ active = {Error}

\* C24: the user-event handlers work only once the asset catalog has
\* settled: while loadAll() has not resolved (the bundle is unset) the
\* Loading screen is the only screen up, no listener is attached, no
\* permission request, stream, capture or upload is under way and nothing
\* has been shown; the Upload screen is entered from Loading only with the
\* bundle set.
HandlersAfterLoad ==
    /\ assets # "bundle" =>
           /\ active = {Loading}
           /\ phase = "loading"
           /\ procs = EmptyBag
           /\ permPending = 0
           /\ ~stream
           /\ ~btnDisabled
           /\ ~countdownOverlay
           /\ fileInput = NoFile
           /\ flags = {}
           /\ errorMessage = ""
           /\ notice = NoNotice
    /\ phase = "ready" => assets = "bundle" /\ Loading \notin active
    /\ phase # "ready" => active = {Loading}

\* with the bundle set and the listeners attached, a capture or an upload is
\* under way
HandlersAfterLoadWitness ==
    /\ assets = "bundle"
    /\ phase = "ready"
    /\ procs # EmptyBag

\* how many times the cue `name` has been asked for in this run
CueRequests(name) ==
    Cardinality({i \in DOMAIN show.audio : show.audio[i][1] = name})

MatchingResolved == show.pc \notin {"capture", "countdown", "analysis", "shuffling", "matching"}

\* C26: for every duration animateMatching is called with, it performs
\* exactly floor(duration / 200) switches: it has not resolved with fewer,
\* it is not still running with more, and once it has resolved no further
\* switch happens.
SwitchesAreFloorOfDuration ==
    /\ [](show.pc = "matching" =>
              Len(show.shown) <= show.duration \div SwitchInterval)
    /\ [](MatchingResolved =>
              /\ Len(show.shown) = show.duration \div SwitchInterval
              /\ show.currentSwitch = show.duration \div SwitchInterval)
    /\ [][MatchingResolved =>
              /\ show'.shown = show.shown
              /\ show'.currentSwitch = show.currentSwitch]_vars

\* how many of the switches so far showed the candidate c
TimesShown(c) == Cardinality({k \in DOMAIN show.shown : show.shown[k] = c})

\* C27: the comparison goes round the shuffled pool: for a pool of P >= 1
\* candidates the k-th switch (k from 0) shows shuffled[k mod P]; so at any
\* moment the numbers of times two candidates of a pool of distinct
\* candidates have been shown differ by at most one; and a 5000 ms run over
\* the 19 placeholder candidates shows every one of them, the first 19
\* switches in the order of the shuffle, which is one permutation of the
\* pool.
RoundRobinTraversal ==
    (show.pc \notin {"capture", "countdown", "analysis", "shuffling"}
        /\ Len(show.shuffled) >= 1) =>
        /\ \A k \in DOMAIN show.shown :
               show.shown[k] = show.shuffled[((k - 1) % Len(show.shuffled)) + 1]
        /\ Cardinality(Range(show.shuffled)) = Len(show.shuffled) =>
               \A a, b \in Range(show.shuffled) :
                   /\ TimesShown(a) - TimesShown(b) <= 1
                   /\ TimesShown(b) - TimesShown(a) <= 1
        /\ (MatchingResolved /\ Len(show.shuffled) = PlaceholderCount
                /\ show.duration = ShowDuration) =>
               /\ Range(show.shown) = Range(show.characterImages)
               /\ SubSeq(show.shown, 1, PlaceholderCount) = show.shuffled
               /\ Cardinality(Range(show.shuffled)) = PlaceholderCount
               /\ \A c \in Range(show.shuffled) : TimesShown(c) >= 1

\* a 5000 ms run over the 19 placeholders, shuffled into another order, is
\* over: 25 switches, the first 6 candidates of the shuffle shown twice
RoundRobinWitness ==
    /\ MatchingResolved
    /\ Len(show.shuffled) = PlaceholderCount
    /\ show.shuffled # show.characterImages
    /\ Len(show.shown) = 25
    /\ TimesShown(show.shuffled[6]) = 2
    /\ TimesShown(show.shuffled[7]) = 1

\* how many entries of the array are c
Occurrences(array, c) == Cardinality({i \in DOMAIN array : array[i] = c})

\* a and b hold the same elements, each as many times
IsPermutation(a, b) ==
    /\ Len(a) = Len(b)
    /\ \A c \in Range(a) \cup Range(b) : Occurrences(a, c) = Occurrences(b, c)

\* every arrangement of the elements of the array
Arrangements(array) ==
    {s \in [1..Len(array) -> Range(array)] : IsPermutation(s, array)}

\* C28: for every array, the empty and the one-element ones included, what
\* shuffleArray can return is a permutation of the array and every
\* permutation of it can be returned; the array passed in keeps its
\* content; and a run shuffles its pool once: from the first switch on
\* neither the shuffled order nor the pool changes.
ShuffleIsAnyPermutation ==
    /\ []((show.pc = "shuffling" /\ Len(show.characterImages) <= MaxShuffled) =>
              \A s \in Arrangements(show.characterImages) \cup
                       shuffleArray(show.characterImages) :
                  /\ s \in shuffleArray(show.characterImages)
                  /\ IsPermutation(s, show.characterImages))
    /\ [][show.pc = "shuffling" =>
              /\ show'.characterImages = show.characterImages
              /\ IsPermutation(show'.shuffled, show.characterImages)]_vars
    /\ [][show.pc \notin {"capture", "countdown", "analysis", "shuffling"} =>
              /\ show'.shuffled = show.shuffled
              /\ show'.characterImages = show.characterImages]_vars

\* a run is under way over a pool that the shuffle put in another order,
\* the pool itself as it was passed
ShuffleWitness ==
    /\ show.pc = "matching"
    /\ show.currentSwitch >= 1
    /\ show.characterImages = [i \in 1..MaxShuffled |-> CharacterSrc(i)]
    /\ show.shuffled # show.characterImages
    /\ IsPermutation(show.shuffled, show.characterImages)

\* C29: the steps of the reveal happen in one order: the match-found banner
\* is set and then cleared before the reveal panel is shown; the user's
\* picture starts to fade out only with the panel shown; the result image
\* fades in only after that; the caption comes only after the fade-in; and
\* the restart control comes last, never while a step of a reveal is still
\* to come.
RevealStepsInOrder ==
    /\ "reveal-content" \in flags => "match-found-flash" \notin flags
    /\ "fade-out" \in flags => "reveal-content" \in flags
    /\ "fade-in" \in flags => "fade-out" \in flags
    /\ "reveal-text" \in flags => "fade-in" \in flags
    /\ "restart-btn" \in flags =>
           /\ "reveal-text" \in flags
           /\ \A r \in Running :
                  r.pc \notin {"flash", "pause", "hold", "fadeOut", "fadeIn", "final"}

\* C30: a cue that fails never blocks what the user sees: whether play()
\* rejects, throws or settles late, for the countdown cue, the shutter cue
\* and the celebratory cue, the countdown completes and the photo is taken,
\* the reveal goes through every step to the restart control, and nothing
\* is reported to the user.
AudioNeverBlocks ==
    /\ [](/\ show.pc # "failed"
          /\ notice = NoNotice
          /\ errorMessage = ""
          /\ Error \notin active)
    /\ (show.pc = "countdown") ~> (show.pc = "analysis" /\ ~countdownOverlay)
    /\ <>(show.pc = "done" /\ RevealFlags \ {"match-found-flash"} \subseteq flags)

\* a capture whose three cues failed in the three ways has reached the
\* restart control
AudioNeverBlocksWitness ==
    /\ show.pc = "done"
    /\ "restart-btn" \in flags
    /\ show.audio = <<<<"timerBeep", "rejected">>, <<"cameraShutter", "threw">>,
                      <<"trumpet", "late">>>>

\* C31: the rectangle of the source that cropToFace draws is the detected
\* box grown by the padding on its four sides and cut to the source: its
\* left is max(0, box.x - 50), its top max(0, box.y - 50), its right
\* min(source width, box.x + box.width + 50) and its bottom
\* min(source height, box.y + box.height + 50), for every box.
CropIsPaddedBoxClamped ==
    crop.pc \in {"cropped", "landmarks"} =>
        /\ crop.cropped.x = Max(0, crop.box.x - Padding * Scale)
        /\ crop.cropped.y = Max(0, crop.box.y - Padding * Scale)
        /\ crop.cropped.x + crop.cropped.width =
               Min(crop.canvas.width * Scale,
                   crop.box.x + crop.box.width + Padding * Scale)
        /\ crop.cropped.y + crop.cropped.height =
               Min(crop.canvas.height * Scale,
                   crop.box.y + crop.box.height + Padding * Scale)

\* points of the source inside the rectangle that was cropped: its corners
\* and the landmarks of the detection
CroppedPoints ==
    {[x |-> crop.cropped.x, y |-> crop.cropped.y],
     [x |-> crop.cropped.x + crop.cropped.width,
      y |-> crop.cropped.y + crop.cropped.height]}
        \cup Range(crop.result.detection.landmarks)

\* C32: the crop is centred in the square surface, the margin on its left
\* equal to the one on its right and the one above equal to the one below;
\* and for every source point inside the cropped rectangle, the point less
\* the recorded offset is where drawImage put that point, inside the square.
CropCentredAndRemapped ==
    crop.pc \in {"cropped", "landmarks"} =>
        LET c == crop.cropped
            side == c.canvas.width * Scale
        IN  /\ c.offsetX = side - (c.offsetX + c.width)
            /\ c.offsetY = c.canvas.height * Scale - (c.offsetY + c.height)
            /\ \A p \in CroppedPoints :
                   /\ p.x - crop.result.offset.x = c.offsetX + (p.x - c.x)
                   /\ p.y - crop.result.offset.y = c.offsetY + (p.y - c.y)
                   /\ p.x - crop.result.offset.x \in 0..side
                   /\ p.y - crop.result.offset.y \in 0..side

(***************************************************************************)
(* C33: the progressive landmark reveal of a run places its points one at  *)
(* a time in index order with a 30 ms wait after each, draws the           *)
(* connections only once the last point is placed, waits 1000 ms more and  *)
(* completes once, after (number of points) x 30 + 1000 ms of timed waits; *)
(* no handler, restart or other run removes a reveal under way or makes it *)
(* skip or repeat a step.                                                  *)
(***************************************************************************)
LandmarkWaits == NumPoints * DelayBetweenPoints + SettleDelay

LandmarkStepOf(r, r2) ==
    \/ /\ r.pc = "points"
       /\ r.points < NumPoints
       /\ r2 = [r EXCEPT !.points = r.points + 1,
                         !.waited = r.points * DelayBetweenPoints]
    \/ /\ r.pc = "points"
       /\ r.points = NumPoints
       /\ r2 = [r EXCEPT !.pc = "settle", !.connected = TRUE,
                         !.waited = NumPoints * DelayBetweenPoints]
    \/ /\ r.pc = "settle"
       /\ r2.pc = "matching"
       /\ r2.settled /\ ~r.settled
       /\ r2.points = NumPoints /\ r2.connected
       /\ r2.waited = LandmarkWaits

LandmarksInOrder ==
    \A r \in Running :
        /\ r.pc = "points" =>
              /\ r.points \in 1..NumPoints
              /\ ~r.connected /\ ~r.settled
              /\ r.waited = (r.points - 1) * DelayBetweenPoints
        /\ r.pc = "settle" =>
              /\ r.points = NumPoints
              /\ r.connected /\ ~r.settled
              /\ r.waited = NumPoints * DelayBetweenPoints
        /\ r.connected => r.points = NumPoints
        /\ r.settled <=> (r.result = "found" /\ r.pc \notin {"points", "settle"})
        /\ r.settled => r.connected /\ r.waited = LandmarkWaits

LandmarkRevealUninterrupted ==
    [][/\ LandmarksInOrder
       /\ \A r \in Running :
             r.pc \in {"points", "settle"} =>
                 \/ CopiesIn(r, procs') >= CopiesIn(r, procs)
                 \/ \E r2 \in BagToSet(procs') :
                       /\ LandmarkStepOf(r, r2)
                       /\ procs' = Replace(r, r2)]_vars

LandmarkRevealWitness ==
    /\ BagCardinality(procs) = 2
    /\ \E r \in Running : r.settled /\ r.waited = LandmarkWaits
    /\ \E r \in Running : r.pc = "points" /\ r.points = NumPoints

(***************************************************************************)
(* FaceDetection.drawLandmarkConnections: the nine paths stroked over the  *)
(* positions.  A position keeps the index it has in landmarks.positions.   *)
(***************************************************************************)
\* faceapi.nets.faceLandmark68Net, the landmark model that loadFaceApiModels
\* loads and withFaceLandmarks() applies: 68 positions for a detected face
LandmarkCount == 68

\* detection.landmarks.positions for a detected box
Positions(box) ==
    [k \in 1..LandmarkCount |->
        [index |-> k - 1,
         x |-> box.x + (box.width * k) \div (LandmarkCount + 1),
         y |-> box.y + (box.height * k) \div (LandmarkCount + 1)]]

\* a slice that takes the element at its end index as well
sliceInclusive(positions, begin, end) ==
    SubSeq(positions, begin + 1, Min(end + 1, Len(positions)))

\* Array.prototype.slice(begin, end): the elements at begin .. end - 1
slice(positions, begin, end) ==
    SubSeq(positions, begin + 1, Min(end, Len(positions)))

\* the point handed to moveTo / lineTo
Translated(point, offset) ==
    [index |-> point.index, x |-> point.x - offset.x, y |-> point.y - offset.y]

\* drawPath: nothing for fewer than two points, else one open stroke
drawPath(points, offset) ==
    IF Len(points) < 2
    THEN <<>>
    ELSE <<[closed |-> FALSE,
            points |-> [k \in 1..Len(points) |-> Translated(points[k], offset)]]>>

\* drawClosedPath: the same with closePath() before the stroke
drawClosedPath(points, offset) ==
    IF Len(points) < 2
    THEN <<>>
    ELSE <<[closed |-> TRUE,
            points |-> [k \in 1..Len(points) |-> Translated(points[k], offset)]]>>

\* the calls of drawLandmarkConnections, in order (lines 102-126)
ConnectionCalls ==
    <<[draw |-> "drawPath", begin |-> 0, end |-> 17],
      [draw |-> "drawPath", begin |-> 17, end |-> 22],
      [draw |-> "drawPath", begin |-> 22, end |-> 27],
      [draw |-> "drawPath", begin |-> 27, end |-> 31],
      [draw |-> "drawPath", begin |-> 31, end |-> 36],
      [draw |-> "drawClosedPath", begin |-> 36, end |-> 42],
      [draw |-> "drawClosedPath", begin |-> 42, end |-> 48],
      [draw |-> "drawClosedPath", begin |-> 48, end |-> 60],
      [draw |-> "drawClosedPath", begin |-> 60, end |-> 68]>>

\* the surface the detector was given in the exploration of the paths
ConnectionsCanvas == [width |-> 200, height |-> 160]

\* the reveal has placed the last point of a detection and calls
\* drawLandmarkConnections with the offset cropToFace recorded
InitConnections ==
    /\ \E box \in Boxes(ConnectionsCanvas) :
          crop = [pc |-> "connections", call |-> 1,
                  positions |-> Positions(box),
                  offset |-> cropToFace(ConnectionsCanvas, box, Padding).offset,
                  strokes |-> <<>>]
    /\ loads = [a \in Assets |-> SettledLoad(a, FALSE)]
    /\ bundle = StoredAssets(loads)
    /\ show = IdleShow
    /\ totalAssets = NumCharacters + Len(SoundNames) + ModelComponents + 1
    /\ loadedAssets = NumCharacters + Len(SoundNames) + ModelComponents + 1
    /\ progress = updateProgress(loadedAssets, totalAssets)
    /\ loadAllPromise = "fulfilled"
    /\ phase = "ready"
    /\ assets = "bundle"
    /\ active = {Analyzing}
    /\ stream = FALSE
    /\ permPending = 0
    /\ btnDisabled = FALSE
    /\ countdownOverlay = FALSE
    /\ fileInput = NoFile
    /\ procs = EmptyBag
    /\ flags = {}
    /\ errorMessage = ""
    /\ notice = NoNotice

\* the position of drawLandmarkConnections after one more of its calls
AfterCall(strokes) ==
    [crop EXCEPT !.strokes = crop.strokes \o strokes,
                 !.call = crop.call + 1,
                 !.pc = IF crop.call = Len(ConnectionCalls)
                        THEN "connected" ELSE "connections"]

\* one this.drawPath(ctx, positions.slice(begin, end), offset)
DrawPathCall ==
    /\ crop.pc = "connections"
    /\ ConnectionCalls[crop.call].draw = "drawPath"
    /\ LET c == ConnectionCalls[crop.call]
       IN  crop' = AfterCall(drawPath(slice(crop.positions, c.begin, c.end),
                                      crop.offset))
    /\ UNCHANGED <<active, errorMessage>>
    /\ CropFrame

\* one this.drawClosedPath(ctx, positions.slice(begin, end), offset)
DrawClosedPathCall ==
    /\ crop.pc = "connections"
    /\ ConnectionCalls[crop.call].draw = "drawClosedPath"
    /\ LET c == ConnectionCalls[crop.call]
       IN  crop' = AfterCall(drawClosedPath(slice(crop.positions, c.begin, c.end),
                                            crop.offset))
    /\ UNCHANGED <<active, errorMessage>>
    /\ CropFrame

NextConnections ==
    \/ DrawPathCall
    \/ DrawClosedPathCall

SpecConnections == InitConnections /\ [][NextConnections]_vars

\* the indices of the points of a stroke
StrokeIndices(stroke) == {p.index : p \in Range(stroke.points)}

\* the regions of the face: jawline, brows, nose, eyes, lips
Regions ==
    [jawline |-> 0..16, brows |-> 17..26, nose |-> 27..35, eyes |-> 36..47,
     lips |-> 48..67]

\* the nine paths: jaw, two brows, nose bridge, nose base, two eyes, two lips
NinePaths ==
    <<0..16, 17..21, 22..26, 27..30, 31..35, 36..41, 42..47, 48..59, 60..67>>

(***************************************************************************)
(* C34: a detection in the reveal carries 68 positions in index order, and *)
(* once the connections are drawn there are nine strokes, the k-th over    *)
(* the indices of the k-th path in ascending order; every index 0..67 is   *)
(* in exactly one stroke, every stroke lies in one region, the strokes of  *)
(* the jawline, brows and nose are open and those of eyes and lips closed. *)
(***************************************************************************)
ConnectionsPartitionIndices ==
    /\ Len(crop.positions) = 68
    /\ \A k \in 1..68 : crop.positions[k].index = k - 1
    /\ \A s \in 1..Len(crop.strokes) :
          /\ StrokeIndices(crop.strokes[s]) = NinePaths[s]
          /\ \A k \in 1..(Len(crop.strokes[s].points) - 1) :
                crop.strokes[s].points[k + 1].index
                    = crop.strokes[s].points[k].index + 1
          /\ \E region \in DOMAIN Regions :
                /\ StrokeIndices(crop.strokes[s]) \subseteq Regions[region]
                /\ crop.strokes[s].closed <=> region \in {"eyes", "lips"}
    /\ \A s, t \in 1..Len(crop.strokes) :
          s # t => StrokeIndices(crop.strokes[s]) \cap StrokeIndices(crop.strokes[t]) = {}
    /\ crop.pc = "connected" =>
          /\ Len(crop.strokes) = 9
          /\ \A i \in 0..67 :
                Cardinality({s \in 1..9 : i \in StrokeIndices(crop.strokes[s])}) = 1

ConnectionsWitness ==
    /\ crop.pc = "connected"
    /\ Len(crop.strokes) = 9
    /\ crop.strokes[9].closed
    /\ crop.offset.x > 0

(***************************************************************************)
(* Animation.triggerConfetti: the interval started at step 5 of            *)
(* animateReveal.  Times are ms on the clock of Date.now(), counted from   *)
(* the call; a particle count is the fraction num / den.                   *)
(***************************************************************************)
\* const duration = 5 * 1000 (line 25)
ConfettiDuration == 5000

\* the period handed to setInterval (line 53)
ConfettiInterval == 250

\* the factor of particleCount (line 40)
ParticleFactor == 50

\* how late after its period an interval callback may run, in ms
Lags == {0, 10, 250}

\* Math.random() for the origins, near the ends of its range
OriginRandoms == {0, 999}

\* randomInRange(min, max) with min and max in tenths, for Math.random() =
\* rv / RandomDenominator: the value in 1 / (10 * RandomDenominator)
randomInRange(min, max, rv) == rv * (max - min) + min * RandomDenominator

\* an interval that stops only once the time left is negative
ConfettiOverStrict(timeLeft) == timeLeft < 0

\* line 36: if (timeLeft <= 0) return clearInterval(interval)
ConfettiOver(timeLeft) == timeLeft <= 0

\* the state right after triggerConfetti() in animateReveal (line 167): the
\* reveal text is up, the last wait(1000) of the reveal is pending, the
\* restart control is not shown yet; the take-photo control is still
\* disabled when the run came from a capture
InitConfetti ==
    /\ crop = [pc |-> "confetti", now |-> 0, cleared |-> FALSE, bursts |-> <<>>]
    /\ \E extra \in {0, AudioWaitMs} :
          show = [pc |-> "final",
                  elapsed |-> RevealWaits[1] + RevealWaits[2] + RevealWaits[3]
                              + RevealWaits[4] + RevealWaits[5] + extra]
    /\ btnDisabled \in BOOLEAN
    /\ active = {Revealing}
    /\ flags = {"reveal-content", "fade-out", "fade-in", "reveal-text"}
    /\ loads = [a \in Assets |-> SettledLoad(a, FALSE)]
    /\ bundle = StoredAssets(loads)
    /\ totalAssets = NumCharacters + Len(SoundNames) + ModelComponents + 1
    /\ loadedAssets = NumCharacters + Len(SoundNames) + ModelComponents + 1
    /\ progress = updateProgress(loadedAssets, totalAssets)
    /\ loadAllPromise = "fulfilled"
    /\ phase = "ready"
    /\ assets = "bundle"
    /\ stream = FALSE
    /\ permPending = 0
    /\ countdownOverlay = FALSE
    /\ fileInput = NoFile
    /\ procs = EmptyBag
    /\ errorMessage = ""
    /\ notice = NoNotice

\* the interval callback (lines 33-52) runs, lag ms after its period
ConfettiFiring ==
    /\ crop.pc = "confetti"
    /\ ~crop.cleared
    /\ \E lag \in Lags, left \in OriginRandoms, right \in OriginRandoms :
          LET now == crop.now + ConfettiInterval + lag
              timeLeft == ConfettiDuration - now
              particleCount == [num |-> ParticleFactor * timeLeft,
                                den |-> ConfettiDuration]
          IN  crop' =
                IF ConfettiOver(timeLeft)
                THEN [crop EXCEPT !.now = now, !.cleared = TRUE, !.bursts = <<>>]
                ELSE [crop EXCEPT
                        !.now = now,
                        !.bursts =
                           <<[particleCount |-> particleCount,
                              x |-> randomInRange(1, 3, left)],
                             [particleCount |-> particleCount,
                              x |-> randomInRange(7, 9, right)]>>]
    /\ UNCHANGED <<appVars, totalAssets, loadedAssets, progress, loads,
                   loadAllPromise, bundle, show>>

NextConfetti ==
    \/ ConfettiFiring
    \/ ShowFinalDone
    \/ handleRestart

SpecConfetti ==
    InitConfetti /\ [][NextConfetti]_vars /\ WF_vars(ConfettiFiring)

(***************************************************************************)
(* C35: the confetti interval runs its callback a period (250 ms) or more  *)
(* after the one before; a callback that runs before 5000 ms have passed   *)
(* emits two bursts, the first from x in [0.1, 0.3) and the second from x  *)
(* in [0.7, 0.9), both with 50 x (time left / 5000) particles, a count in  *)
(* (0, 50] and below the count of the callback before; the first callback  *)
(* at or after 5000 ms emits nothing and clears the interval, after which  *)
(* no callback runs; and the interval is always cleared in the end,        *)
(* whether or not restart is pressed meanwhile.                            *)
(***************************************************************************)
ConfettiFiringStep ==
    crop' # crop =>
        /\ ~crop.cleared
        /\ crop'.now >= crop.now + ConfettiInterval
        /\ IF crop'.now < 5000
           THEN /\ ~crop'.cleared
                /\ Len(crop'.bursts) = 2
                /\ \A b \in 1..2 :
                      LET count == crop'.bursts[b].particleCount
                      IN  /\ count.num * 5000 = 50 * (5000 - crop'.now) * count.den
                          /\ count.num > 0
                          /\ count.num <= 50 * count.den
                          /\ crop.bursts # <<>> =>
                                count.num * crop.bursts[b].particleCount.den
                                    < crop.bursts[b].particleCount.num * count.den
                /\ crop'.bursts[1].x >= 1 * RandomDenominator
                /\ crop'.bursts[1].x < 3 * RandomDenominator
                /\ crop'.bursts[2].x >= 7 * RandomDenominator
                /\ crop'.bursts[2].x < 9 * RandomDenominator
           ELSE /\ crop'.cleared
                /\ crop'.bursts = <<>>

ConfettiTerminates ==
    /\ [][ConfettiFiringStep]_vars
    /\ <>[](crop.cleared)

ConfettiWitness ==
    /\ Upload \in active
    /\ ~crop.cleared
    /\ Len(crop.bursts) = 2
    /\ crop.now > 2000

(***************************************************************************)
(* C36: once cancel has put Upload back, no capture started before it has  *)
(* its photo processed: the only steps that take the active mark from      *)
(* Upload are the answer to a webcam click and the start of a run on a     *)
(* selected file, never the continuation of handleTakePhoto.               *)
(***************************************************************************)
PhotoRunLeavesUpload ==
    /\ Upload \in active
    /\ Upload \notin active'
    /\ \E r \in Running :
          /\ r.kind = "photo"
          /\ r.pc = "loadImage"
          /\ CopiesIn(r, procs') < CopiesIn(r, procs)

CancelEndsCapture == [][~PhotoRunLeavesUpload]_vars

(***************************************************************************)
(* Camera.start / Camera.stop with the tracks of the granted streams:      *)
(* crop.live counts the streams getUserMedia has granted whose tracks have *)
(* not been stopped, crop.granted all the streams granted so far; stream   *)
(* says that camera.stream holds one.                                      *)
(***************************************************************************)
InitStreams ==
    /\ crop = [pc |-> "streams", live |-> 0, granted |-> 0]
    /\ active = {Upload}
    /\ stream = FALSE
    /\ permPending = 0
    /\ loads = [a \in Assets |-> SettledLoad(a, FALSE)]
    /\ bundle = StoredAssets(loads)
    /\ show = IdleShow
    /\ totalAssets = NumCharacters + Len(SoundNames) + ModelComponents + 1
    /\ loadedAssets = NumCharacters + Len(SoundNames) + ModelComponents + 1
    /\ progress = updateProgress(loadedAssets, totalAssets)
    /\ loadAllPromise = "fulfilled"
    /\ phase = "ready"
    /\ assets = "bundle"
    /\ btnDisabled = FALSE
    /\ countdownOverlay = FALSE
    /\ fileInput = NoFile
    /\ procs = EmptyBag
    /\ flags = {}
    /\ errorMessage = ""
    /\ notice = NoNotice

StreamsFrame ==
    UNCHANGED <<phase, assets, btnDisabled, countdownOverlay, fileInput,
                procs, flags, errorMessage, totalAssets, loadedAssets,
                progress, loads, loadAllPromise, bundle, show>>

\* handleWebcamClick calls start(), which has no guard and suspends at
\* getUserMedia (line 36)
StartCalled ==
    /\ Idle
    /\ Upload \in active
    /\ permPending < MaxStarts
    /\ crop.granted + permPending < MaxGranted
    /\ permPending' = permPending + 1
    /\ UNCHANGED <<active, stream, crop, notice>>
    /\ StreamsFrame

\* getUserMedia resolves with a new stream: this.stream = <it> (line 36),
\* whatever this.stream held before; handleWebcamClick switches the screen
StartGranted ==
    /\ Idle
    /\ permPending > 0
    /\ permPending' = permPending - 1
    /\ stream' = TRUE
    /\ crop' = [crop EXCEPT !.live = @ + 1, !.granted = @ + 1]
    /\ active' = AfterStart(active, TRUE)
    /\ UNCHANGED notice
    /\ StreamsFrame

\* getUserMedia rejects: the alert, start() returns false
StartDenied ==
    /\ Idle
    /\ permPending > 0
    /\ permPending' = permPending - 1
    /\ notice' = WebcamNotice
    /\ active' = AfterStart(active, FALSE)
    /\ UNCHANGED <<stream, crop>>
    /\ StreamsFrame

\* Camera.stop (lines 50-58): the tracks of this.stream, if any, are stopped
stop(live, held) == IF held THEN live - 1 ELSE live

\* handleCancelWebcam: stop(), then the screen
StopOnCancel ==
    /\ Idle
    /\ Capturing \in active
    /\ crop' = [crop EXCEPT !.live = stop(crop.live, stream)]
    /\ stream' = FALSE
    /\ active' = switchScreen(active, Capturing, Upload)
    /\ UNCHANGED <<permPending, notice>>
    /\ StreamsFrame

NextStreams ==
    \/ StartCalled
    \/ StartGranted
    \/ StartDenied
    \/ StopOnCancel
    \/ DismissNotice

SpecStreams == InitStreams /\ [][NextStreams]_vars

(***************************************************************************)
(* C37: at most one granted stream has live tracks at a time, and it is    *)
(* the one the controller holds: no stream is dropped from camera.stream   *)
(* with its tracks still live (which nothing could stop any more).         *)
(***************************************************************************)
NoStreamDroppedLive ==
    crop.live = IF stream THEN 1 ELSE 0

(***************************************************************************)
(* C38: when the detector throws (as it does when its weights were never   *)
(* loaded), detectFace returns null, FaceDetection.processImage returns    *)
(* null, and the run goes on to showError: it is never left on Analyzing   *)
(* by the exception, it ends with Error as the only active screen and the  *)
(* no-face message, and no alert of a handler's catch block is raised.     *)
(***************************************************************************)
DetectorExceptionsBecomeNoFace ==
    /\ crop.pc = "threw" => DrawThrows(<<crop.canvas.width, crop.canvas.height>>)
    /\ (crop.pc = "returned" /\ crop.thrown) =>
          /\ crop.result = NullResult
          /\ active = {Analyzing}
          /\ notice = NoNotice
          /\ ENABLED ShowNoFace
    /\ (crop.pc = "error" /\ crop.thrown) =>
          /\ active = {Error}
          /\ errorMessage = NoFaceMessage
          /\ notice = NoNotice

DetectorExceptionWitness ==
    /\ crop.pc = "error"
    /\ crop.thrown
    /\ active = {Error}

(***************************************************************************)
(* C39: at most one handleTakePhoto is under way at any time, so at most   *)
(* one countdown; the take-photo control is disabled exactly while one is  *)
(* under way, from its first line to its finally block, however it ends.   *)
(***************************************************************************)
PhotoRuns == {r \in Running : r.kind = "photo"}

OneCountdownAtATime ==
    /\ Cardinality(PhotoRuns) <= 1
    /\ \A r \in PhotoRuns : CopiesIn(r, procs) = 1
    /\ btnDisabled <=> PhotoRuns # {}

OneCountdownWitness ==
    /\ \E r \in PhotoRuns : r.pc = "countdown" /\ r.count < CountdownStart
    /\ Capturing \in active
    /\ btnDisabled
    /\ notice = NoNotice

(***************************************************************************)
(* Startup from the evaluation of the module: new MovieDoppelgangerApp(),  *)
(* init(), waitForFaceApi(), loadAll() and the 500 ms timer.  crop.faceapi *)
(* says that the global faceapi is defined; phase is "module" before the   *)
(* constructor, "failed" when it threw, "polling" inside waitForFaceApi.   *)
(***************************************************************************)
\* waitForFaceApi, line 343: attempts < 50
MaxAttempts == 50

\* waitForFaceApi, line 344: the wait of one poll, in ms
PollInterval == 100

LibraryNotice == "Failed to load facial recognition library. Please refresh the page."

\* the page as loaded: the detection library's script has run or has not
InitStartup ==
    /\ \E defined \in BOOLEAN :
          crop = [pc |-> "startup", faceapi |-> defined, attempts |-> 0,
                  waited |-> 0]
    /\ phase = "module"
    /\ totalAssets = 0
    /\ loadedAssets = 0
    /\ progress = <<0, 0>>
    /\ loads = [a \in Assets |-> NotStarted]
    /\ loadAllPromise = "idle"
    /\ bundle = EmptyBundle
    /\ show = IdleShow
    /\ assets = "null"
    /\ active = {Loading}
    /\ stream = FALSE
    /\ permPending = 0
    /\ btnDisabled = FALSE
    /\ countdownOverlay = FALSE
    /\ fileInput = NoFile
    /\ procs = EmptyBag
    /\ flags = {}
    /\ errorMessage = ""
    /\ notice = NoNotice

StartupFrame ==
    UNCHANGED <<assets, active, stream, permPending, btnDisabled,
                countdownOverlay, fileInput, procs, flags, errorMessage,
                totalAssets, loadedAssets, progress, loads, loadAllPromise,
                bundle, show>>

\* the library's script arrives late
LibraryLoads ==
    /\ ~crop.faceapi
    /\ crop' = [crop EXCEPT !.faceapi = TRUE]
    /\ UNCHANGED <<phase, notice>>
    /\ StartupFrame

\* const app = new MovieDoppelgangerApp() (line 600): the constructor builds
\* FaceDetection, whose constructor evaluates new faceapi.SsdMobilenetv1Options
\* (faceDetection.js line 5) and throws a ReferenceError when faceapi is not
\* defined; otherwise it calls init(), which reaches waitForFaceApi
Construct ==
    /\ phase = "module"
    /\ phase' = IF crop.faceapi THEN "polling" ELSE "failed"
    /\ UNCHANGED <<crop, notice>>
    /\ StartupFrame

\* waitForFaceApi: one evaluation of the loop condition, followed by a poll
\* of 100 ms or by the end of the method, with its alert
waitForFaceApi ==
    /\ phase = "polling"
    /\ Idle
    /\ IF ~crop.faceapi /\ crop.attempts < MaxAttempts
       THEN /\ crop' = [crop EXCEPT !.attempts = @ + 1,
                                    !.waited = @ + PollInterval]
            /\ UNCHANGED <<phase, notice>>
       ELSE /\ phase' = "loading"
            /\ notice' = IF crop.faceapi THEN notice ELSE LibraryNotice
            /\ UNCHANGED crop
    /\ StartupFrame

\* init(), line 317: loadAll() is called once waitForFaceApi has returned
StartupLoadAll ==
    /\ phase = "loading"
    /\ Idle
    /\ loadAll

NextStartup ==
    \/ LibraryLoads
    \/ Construct
    \/ waitForFaceApi
    \/ StartupLoadAll
    \/ \E a \in Assets : ImageLoaded(a)
    \/ \E a \in Assets : ImageError(a)
    \/ \E a \in Assets : SoundCanPlay(a)
    \/ \E a \in Assets : SoundError(a)
    \/ ModelsLoaded
    \/ ModelsFailed
    \/ LoadAllSettled
    \/ StartupTimer

\* what the scheduler guarantees: the module is evaluated, timers fire,
\* every asset load settles; the late arrival of the library is not promised
StartupProgress ==
    \/ Construct
    \/ waitForFaceApi
    \/ StartupLoadAll
    \/ \E a \in Assets : ImageLoaded(a)
    \/ \E a \in Assets : ImageError(a)
    \/ \E a \in Assets : SoundCanPlay(a)
    \/ \E a \in Assets : SoundError(a)
    \/ ModelsLoaded
    \/ ModelsFailed
    \/ LoadAllSettled
    \/ StartupTimer

SpecStartup ==
    InitStartup /\ [][NextStartup]_vars /\ WF_vars(StartupProgress)

(***************************************************************************)
(* C40: startup terminates.  The wait for the detection library makes at   *)
(* most 50 polls of 100 ms, and whether or not the library is there the    *)
(* application goes on to loadAll() and, the loads settling, eventually    *)
(* has Upload as its active screen with the handlers attached.             *)
(***************************************************************************)
StartupTerminates ==
    /\ [](crop.attempts <= 50 /\ crop.waited = crop.attempts * 100)
    /\ <>(phase = "ready" /\ active = {Upload})

====
